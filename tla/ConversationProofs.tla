--------------------------- MODULE ConversationProofs ---------------------------
(***************************************************************************)
(* Proofs about Conversation, for any questions and any number of calls and *)
(* of runs adrift.  What the page shows beside a reply is right because the *)
(* call in flight remembers which question it repeats: every request the    *)
(* server has with its number, from the stream or from the fallback, sends  *)
(* what the call sends, and the page the call left behind still agrees with *)
(* it when the reply comes.  PageInv says so.                               *)
(***************************************************************************)
EXTENDS Conversation, FiniteSetTheorems, TLAPS

\* An optional value: {} or a set of one.
AtMostOne(S) == \A x, y \in S : x = y

\* TypeOK, its "at most one" left to Single.
Typed ==
  /\ box \in Text \cup {"none"} /\ result \subseteq Reply /\ thread \subseteq Thread
  /\ error \in BOOLEAN /\ manual \subseteq Text
  /\ panel \subseteq Session /\ call \subseteq Call
  /\ asks \in 0..MaxAsks /\ since \in 0..asks
  /\ requests \subseteq Request /\ sessions \in 0..(2 * MaxAsks)
  /\ history \subseteq HistoryRow

Single ==
  /\ AtMostOne(result) /\ AtMostOne(thread) /\ AtMostOne(manual)
  /\ AtMostOne(panel) /\ AtMostOne(call)

\* How often a call may still be accepted: once per leg it has before it.
Pending(c) == (IF c.leg = "stream" THEN 2 ELSE 1) - (IF c.accepted THEN 1 ELSE 0)

\* Calls are numbered in order, and ids last for every call and its fallback.
Numbered ==
  /\ \A r \in requests : r.ask <= asks
  /\ sessions <= 2 * asks
  /\ \A c \in call : /\ c.ask = asks /\ sessions + Pending(c) <= 2 * asks
                     /\ AtMostOne(c.session)

\* A request with the number of the call in flight sends what the call sends.
CallMatches ==
  \A c \in call, r \in requests : r.ask = c.ask =>
    /\ r.op = c.op /\ r.text = c.text /\ r.about = c.about
    /\ c.session # {} => c.session = {r.session}

\* The page a call left behind agrees with it until its reply comes.
CallInv ==
  \A c \in call :
    /\ c.op = "fresh" => c.about = [original |-> c.text, exchanges |-> 0]
    /\ c.op = "followup" =>
         /\ c.session # {} /\ panel = c.session
         /\ \A t \in thread :
              /\ c.session = {t.session}
              /\ c.about = [original |-> t.original, exchanges |-> ExchangesSent(t)]
    /\ c.op # "sql" => manual = {}

\* Only the grounded pipeline asks for clarification, and only below the cap.
RepliesInv ==
  /\ \A r \in requests : r.pc = "clarification" => r.op # "sql" /\ MayAsk(r.about.exchanges)
  /\ \A r \in result : r.kind = "clarification" => r.op # "sql"

\* The inductive invariant.
PageInv ==
  /\ Typed /\ Single /\ Numbered /\ CallMatches /\ CallInv /\ RepliesInv
  /\ PageIsOfOneReply /\ ClarificationsEnd

-----------------------------------------------------------------------------
(* An optional value has at most one element, as TypeOK counts them.       *)
LEMMA OptionalIsSmall ==
  ASSUME NEW S, NEW T, S \subseteq T, AtMostOne(S)
  PROVE  Optional(S, T)
<1>1. CASE S = {}
  BY <1>1, FS_EmptySet, SMT DEF Optional
<1>2. CASE S # {}
  <2>1. PICK x \in S : TRUE
    BY <1>2
  <2>2. S = {x}
    BY <2>1 DEF AtMostOne
  <2>3. Cardinality({x}) = 1
    BY FS_Singleton
  <2>4. Cardinality(S) = 1
    BY <2>2, <2>3, Zenon
  <2> QED
    BY <2>4 DEF Optional
<1> QED
  BY <1>1, <1>2

(* The inductive invariant types the state.                                *)
LEMMA PageInvTypes == PageInv => TypeOK
<1> SUFFICES ASSUME PageInv PROVE TypeOK
  OBVIOUS
<1>1. Typed /\ Single
  BY DEF PageInv
<1>2. Optional(result, Reply) /\ Optional(thread, Thread) /\ Optional(manual, Text)
  BY <1>1, OptionalIsSmall, Zenon DEF Typed, Single
<1>3. Optional(panel, Session) /\ Optional(call, Call)
  BY <1>1, OptionalIsSmall, Zenon DEF Typed, Single
<1> QED
  BY <1>1, <1>2, <1>3, Zenon DEF TypeOK, Typed

(* Nothing is shown, asked or running at first.                            *)
LEMMA PageInit == Init => PageInv
<1> SUFFICES ASSUME Init PROVE PageInv
  OBVIOUS
<1>1. Typed
  <2>1. asks \in 0..MaxAsks /\ since \in 0..asks /\ sessions \in 0..(2 * MaxAsks)
    BY BoundsAssumption DEF Init
  <2>2. error \in BOOLEAN
    BY Zenon DEF Init
  <2> QED
    BY <2>1, <2>2, Zenon DEF Init, Typed
<1>2. Single /\ Numbered /\ CallMatches /\ CallInv /\ RepliesInv
  BY DEF Init, Single, AtMostOne, Numbered, CallMatches, CallInv, RepliesInv
<1>3. PageIsOfOneReply /\ ClarificationsEnd
  BY DEF Init, PageIsOfOneReply, ThreadIsOfResult, PanelIsOfResult, NoteOnlyOnManualRuns,
         NothingFromBefore, ClarificationsEnd
<1> QED
  BY <1>1, <1>2, <1>3 DEF PageInv

-----------------------------------------------------------------------------
(* The user's gestures. *)

(* A call that leaves the page is numbered after every request there is,   *)
(* and after the last "new conversation".                                  *)
LEMMA SendEffect ==
  ASSUME PageInv, NEW op \in Op, NEW leg \in {"stream", "run_sql"}, NEW text \in Text,
         NEW about \in About, NEW session \in SUBSET Session, AtMostOne(session),
         Send(op, leg, text, about, session), UNCHANGED <<since, server>>
  PROVE  /\ asks' \in 0..MaxAsks /\ since' \in 0..asks' /\ error' = FALSE
         /\ call' \subseteq Call /\ AtMostOne(call') /\ Numbered' /\ CallMatches'
         /\ \A c \in call' : /\ c.op = op /\ c.text = text /\ c.about = about
                             /\ c.session = session /\ c.ask > since'
<1> DEFINE new == [ask |-> asks', op |-> op, leg |-> leg, text |-> text, about |-> about,
                   session |-> session, accepted |-> FALSE, silent |-> FALSE]
<1>1. /\ asks \in 0..MaxAsks /\ since \in 0..asks /\ requests \subseteq Request
      /\ sessions \in 0..(2 * MaxAsks) /\ sessions <= 2 * asks
      /\ \A r \in requests : r.ask <= asks
  BY DEF PageInv, Typed, Numbered
<1>2. asks' = asks + 1 /\ asks < MaxAsks /\ call' = {new} /\ error' = FALSE
  BY DEF Send
<1>3. since' = since /\ requests' = requests /\ sessions' = sessions
  BY DEF server
<1>4. asks' \in 1..MaxAsks /\ since' \in 0..asks' /\ asks' > since'
  BY <1>1, <1>2, <1>3, BoundsAssumption
<1>5. new \in Call
  BY <1>4 DEF Call
<1>6. /\ new.ask = asks' /\ new.op = op /\ new.leg = leg /\ new.text = text
      /\ new.about = about /\ new.session = session /\ new.accepted = FALSE
  OBVIOUS
<1> HIDE DEF new
<1>7. AtMostOne(call')
  BY <1>2 DEF AtMostOne
<1>8. Pending(new) \in 1..2
  BY <1>6 DEF Pending
<1>9. Numbered'
  <2>1. \A r \in requests' : r.ask <= asks'
    BY <1>1, <1>2, <1>3 DEF Request
  <2>2. sessions' <= 2 * asks' /\ sessions' + Pending(new) <= 2 * asks'
    BY <1>1, <1>2, <1>3, <1>8
  <2> QED
    BY <2>1, <2>2, <1>2, <1>6 DEF Numbered, Pending, AtMostOne
<1>10. CallMatches'
  <2>1. \A r \in requests' : r.ask # new.ask
    BY <1>1, <1>2, <1>3, <1>6 DEF Request
  <2> QED
    BY <2>1, <1>2 DEF CallMatches
<1> QED
  BY <1>2, <1>4, <1>5, <1>6, <1>7, <1>9, <1>10, BoundsAssumption

(* A new question leaves with an empty page.                               *)
LEMMA FreshStep ==
  ASSUME PageInv, NEW text \in Text, SendFresh(text), manual' = {}, box' \in Text,
         UNCHANGED <<panel, since, server>>
  PROVE  PageInv'
<1> DEFINE about == [original |-> text, exchanges |-> 0]
<1>1. about \in About
  BY DEF About, CLARIFICATION_ROUND_CAP
<1>2. AtMostOne({}) /\ {} \in SUBSET Session
  BY DEF AtMostOne
<1>3. Send("fresh", "stream", text, about, {}) /\ result' = {} /\ thread' = {}
  BY DEF SendFresh
<1> HIDE DEF about
<1>4. /\ asks' \in 0..MaxAsks /\ since' \in 0..asks' /\ error' = FALSE
      /\ call' \subseteq Call /\ AtMostOne(call') /\ Numbered' /\ CallMatches'
      /\ \A c \in call' : /\ c.op = "fresh" /\ c.text = text /\ c.about = about
                          /\ c.session = {} /\ c.ask > since'
  BY <1>1, <1>2, <1>3, SendEffect DEF Op
<1>5. Typed'
  BY <1>3, <1>4 DEF PageInv, Typed, server
<1>6. Single'
  BY <1>3, <1>4 DEF PageInv, Single, AtMostOne
<1>7. CallInv'
  BY <1>3, <1>4 DEF CallInv, about
<1>8. RepliesInv'
  BY <1>3 DEF PageInv, RepliesInv, server
<1>9. PageIsOfOneReply' /\ ClarificationsEnd'
  BY <1>3, <1>4 DEF PageIsOfOneReply, ThreadIsOfResult, PanelIsOfResult,
     NoteOnlyOnManualRuns, NothingFromBefore, ClarificationsEnd
<1> QED
  BY <1>4, <1>5, <1>6, <1>7, <1>8, <1>9 DEF PageInv

(* What a user asks again from a panel is a text.                          *)
LEMMA PanelTexts ==
  ASSUME PageInv, NEW q \in Question \cup {h.text : h \in history}
  PROVE  q \in Text
BY DEF PageInv, Typed, HistoryRow, Text

(* A panel used while a call is in flight only changes the box and the     *)
(* note, of which the call has none.                                       *)
LEMMA BoxStep ==
  ASSUME PageInv, box' \in Text \cup {"none"}, manual' \in {{}, manual},
         UNCHANGED <<result, thread, error, panel, call, asks, since, server>>
  PROVE  PageInv'
<1>1. Typed'
  BY DEF PageInv, Typed, server
<1>2. Single'
  BY DEF PageInv, Single, AtMostOne
<1>3. Numbered' /\ CallMatches' /\ RepliesInv'
  BY DEF PageInv, Numbered, CallMatches, RepliesInv, server, Pending
<1>4. CallInv'
  BY DEF PageInv, CallInv
<1>5. PageIsOfOneReply' /\ ClarificationsEnd'
  BY DEF PageInv, PageIsOfOneReply, ThreadIsOfResult, PanelIsOfResult,
     NoteOnlyOnManualRuns, NothingFromBefore, ClarificationsEnd
<1> QED
  BY <1>1, <1>2, <1>3, <1>4, <1>5 DEF PageInv

(* A follow-up carries the thread's session, question and count, which are *)
(* those of the clarification shown: so there is no manual note, and the   *)
(* count it sends is within the cap.                                       *)
LEMMA AnswerStep ==
  ASSUME PageInv, AnswerClarification
  PROVE  PageInv'
<1>1. PICK t \in thread, r \in result :
        /\ r.kind = "clarification" /\ ~error
        /\ Send("followup", "stream", "followup",
                [original |-> t.original, exchanges |-> ExchangesSent(t)], {t.session})
        /\ UNCHANGED <<box, result, thread, manual, panel, since, server>>
  BY DEF AnswerClarification
<1> DEFINE about == [original |-> t.original, exchanges |-> ExchangesSent(t)]
<1>2. /\ t \in Thread /\ r \in Reply /\ AtMostOne(thread) /\ AtMostOne(result)
      /\ t.exchanges < CLARIFICATION_ROUND_CAP /\ t.session = r.session
      /\ panel = {r.session} /\ r.op # "sql" /\ manual = {}
  BY <1>1 DEF PageInv, Typed, Single, RepliesInv, PageIsOfOneReply, ThreadIsOfResult,
              PanelIsOfResult, NoteOnlyOnManualRuns, ClarificationsEnd
<1>3. about \in About /\ {t.session} \in SUBSET Session /\ "followup" \in Text
  BY <1>2 DEF Thread, About, ExchangesSent, CLARIFICATION_ROUND_CAP, Text
<1>4. AtMostOne({t.session})
  BY DEF AtMostOne
<1>5. Send("followup", "stream", "followup", about, {t.session})
  BY <1>1
<1> HIDE DEF about
<1>6. /\ asks' \in 0..MaxAsks /\ since' \in 0..asks' /\ error' = FALSE
      /\ call' \subseteq Call /\ AtMostOne(call') /\ Numbered' /\ CallMatches'
      /\ \A c \in call' : /\ c.op = "followup" /\ c.text = "followup" /\ c.about = about
                          /\ c.session = {t.session} /\ c.ask > since'
  BY <1>1, <1>3, <1>4, <1>5, SendEffect DEF Op
<1>7. Typed'
  BY <1>1, <1>6 DEF PageInv, Typed, server
<1>8. Single'
  BY <1>1, <1>6 DEF PageInv, Single, AtMostOne
<1>9. CallInv'
  <2>1. \A u \in thread' : u = t
    BY <1>1, <1>2 DEF AtMostOne
  <2>2. panel' = {t.session} /\ manual' = {}
    BY <1>1, <1>2
  <2> QED
    BY <2>1, <2>2, <1>6 DEF CallInv, about, ExchangesSent
<1>10. RepliesInv' /\ ClarificationsEnd'
  BY <1>1 DEF PageInv, RepliesInv, ClarificationsEnd, server
<1>11. PageIsOfOneReply'
  BY <1>1, <1>6 DEF PageInv, PageIsOfOneReply, ThreadIsOfResult, PanelIsOfResult,
     NoteOnlyOnManualRuns, NothingFromBefore
<1> QED
  BY <1>6, <1>7, <1>8, <1>9, <1>10, <1>11 DEF PageInv

(* A SQL text sent from the history closes the thread.                     *)
LEMMA RunSqlStep ==
  ASSUME PageInv, NEW h \in history, RunSqlFromHistory(h)
  PROVE  PageInv'
<1>1. PICK about \in h.sql : Send("sql", "run_sql", h.text, about, {h.session})
  BY DEF RunSqlFromHistory
<1>2. thread' = {} /\ UNCHANGED <<box, result, manual, panel, since, server>>
  BY DEF RunSqlFromHistory
<1>3. about \in About /\ h.text \in Text /\ {h.session} \in SUBSET Session
  BY DEF PageInv, Typed, HistoryRow
<1>4. AtMostOne({h.session})
  BY DEF AtMostOne
<1>5. /\ asks' \in 0..MaxAsks /\ since' \in 0..asks' /\ error' = FALSE
      /\ call' \subseteq Call /\ AtMostOne(call') /\ Numbered' /\ CallMatches'
      /\ \A c \in call' : c.op = "sql" /\ c.ask > since'
  BY <1>1, <1>2, <1>3, <1>4, SendEffect DEF Op
<1>6. Typed'
  BY <1>2, <1>5 DEF PageInv, Typed, server
<1>7. Single'
  BY <1>2, <1>5 DEF PageInv, Single, AtMostOne
<1>8. CallInv'
  BY <1>5 DEF CallInv
<1>9. RepliesInv' /\ ClarificationsEnd'
  BY <1>2 DEF PageInv, RepliesInv, ClarificationsEnd, server
<1>10. PageIsOfOneReply'
  BY <1>2, <1>5 DEF PageInv, PageIsOfOneReply, ThreadIsOfResult, PanelIsOfResult,
     NoteOnlyOnManualRuns, NothingFromBefore
<1> QED
  BY <1>5, <1>6, <1>7, <1>8, <1>9, <1>10 DEF PageInv

(* "New conversation" clears the page.                                     *)
LEMMA NewConversationStep ==
  ASSUME PageInv, NewConversation
  PROVE  PageInv'
<1>1. /\ call = {} /\ call' = {} /\ box' = "none" /\ result' = {} /\ thread' = {}
      /\ error' = FALSE /\ manual' = {} /\ panel' = {} /\ since' = asks
      /\ UNCHANGED <<asks, server>>
  BY DEF NewConversation, loading
<1>2. Typed'
  <2>1. asks' \in 0..MaxAsks /\ since' \in 0..asks'
    BY <1>1 DEF PageInv, Typed
  <2>2. error' \in BOOLEAN /\ UNCHANGED <<requests, sessions, history>>
    BY <1>1 DEF server
  <2> QED
    BY <1>1, <2>1, <2>2 DEF PageInv, Typed
<1>3. Single' /\ Numbered' /\ CallMatches' /\ CallInv' /\ RepliesInv'
  BY <1>1 DEF PageInv, Single, AtMostOne, Numbered, CallMatches, CallInv, RepliesInv, server
<1>4. PageIsOfOneReply' /\ ClarificationsEnd'
  BY <1>1 DEF PageIsOfOneReply, ThreadIsOfResult, PanelIsOfResult, NoteOnlyOnManualRuns,
     NothingFromBefore, ClarificationsEnd
<1> QED
  BY <1>2, <1>3, <1>4 DEF PageInv

(* Every gesture keeps the invariant.                                      *)
LEMMA GestureStep ==
  ASSUME PageInv, Gesture
  PROVE  PageInv'
<1>1. CASE Type
  BY <1>1, BoxStep DEF Type, Text
<1>2. CASE SubmitFresh
  <2>1. box \in Text /\ box' = box
    BY <1>2 DEF SubmitFresh, PageInv, Typed
  <2> QED
    BY <1>2, <2>1, FreshStep DEF SubmitFresh
<1>3. CASE \E q \in Question \cup {h.text : h \in history} : RunFromPanel(q)
  <2>1. PICK q \in Question \cup {h.text : h \in history} : RunFromPanel(q)
    BY <1>3
  <2>2. q \in Text
    BY PanelTexts
  <2>3. box' = q /\ manual' = {} /\ UNCHANGED <<panel, since, server>>
    BY <2>1 DEF RunFromPanel
  <2>4. CASE SendFresh(q)
    BY <2>2, <2>3, <2>4, FreshStep
  <2>5. CASE UNCHANGED <<result, thread, error, call, asks>>
    BY <2>2, <2>3, <2>5, BoxStep
  <2> QED
    BY <2>1, <2>4, <2>5 DEF RunFromPanel
<1>4. CASE \E h \in history : RunSqlFromHistory(h)
  BY <1>4, RunSqlStep
<1>5. CASE AnswerClarification
  BY <1>5, AnswerStep
<1>6. CASE NewConversation
  BY <1>6, NewConversationStep
<1> QED
  BY <1>1, <1>2, <1>3, <1>4, <1>5, <1>6 DEF Gesture

-----------------------------------------------------------------------------
(* The server. *)

(* A call is accepted at most once on each of its legs, so there is an id   *)
(* for it; the new request sends what the call sends.                      *)
LEMMA AcceptStep ==
  ASSUME PageInv, Accept
  PROVE  PageInv'
<1>1. PICK c \in call :
        /\ ~c.accepted
        /\ sessions' = IF c.session = {} THEN sessions + 1 ELSE sessions
        /\ \E s \in SessionFor(c) :
             requests' = requests \cup
               {[ask |-> c.ask, op |-> c.op, leg |-> c.leg, text |-> c.text,
                 about |-> c.about, session |-> s, pc |-> "running"]}
        /\ call' = {[c EXCEPT !.accepted = TRUE]}
        /\ UNCHANGED <<page, asks, since, history>>
  BY DEF Accept
<1>2. PICK s \in SessionFor(c) :
        requests' = requests \cup
          {[ask |-> c.ask, op |-> c.op, leg |-> c.leg, text |-> c.text,
            about |-> c.about, session |-> s, pc |-> "running"]}
  BY <1>1
<1> DEFINE new == [ask |-> c.ask, op |-> c.op, leg |-> c.leg, text |-> c.text,
                   about |-> c.about, session |-> s, pc |-> "running"]
           d == [c EXCEPT !.accepted = TRUE]
<1>3. /\ c \in Call /\ c.ask = asks /\ sessions + Pending(c) <= 2 * asks
      /\ AtMostOne(c.session) /\ asks \in 0..MaxAsks /\ sessions \in 0..(2 * MaxAsks)
      /\ MaxAsks \in Nat
  BY BoundsAssumption DEF PageInv, Typed, Numbered
<1>4. /\ d \in Call /\ d.ask = c.ask /\ d.op = c.op /\ d.leg = c.leg /\ d.text = c.text
      /\ d.about = c.about /\ d.session = c.session /\ d.accepted = TRUE
  BY <1>3 DEF Call
<1>5. /\ new.ask = c.ask /\ new.op = c.op /\ new.leg = c.leg /\ new.text = c.text
      /\ new.about = c.about /\ new.session = s /\ new.pc = "running"
  OBVIOUS
<1>6. call' = {d} /\ requests' = requests \cup {new}
  BY <1>1, <1>2
<1>7. Pending(c) \in 1..2 /\ Pending(d) = Pending(c) - 1
  BY <1>1, <1>3, <1>4 DEF Pending
<1>8. /\ sessions' \in 0..(2 * MaxAsks) /\ sessions' + Pending(d) <= 2 * asks
      /\ sessions' <= 2 * asks /\ s \in Session
  <2>1. CASE c.session = {}
    <3>1. sessions' = sessions + 1 /\ s = sessions + 1
      BY <1>1, <2>1 DEF SessionFor
    <3>2. sessions + 1 <= 2 * asks
      BY <1>3, <1>7
    <3> QED
      BY <3>1, <3>2, <1>3, <1>7 DEF Session
  <2>2. CASE c.session # {}
    <3>1. sessions' = sessions /\ s \in c.session
      BY <1>1, <2>2 DEF SessionFor
    <3>2. s \in Session
      BY <3>1, <1>3 DEF Call
    <3> QED
      BY <3>1, <3>2, <1>3, <1>7
  <2> QED
    BY <2>1, <2>2
<1>9. c.session # {} => c.session = {s}
  BY <1>3 DEF SessionFor, AtMostOne
<1>10. new \in Request
  BY <1>3, <1>8 DEF Call, Request
<1>11. UNCHANGED <<box, result, thread, error, manual, panel, asks, since, history>>
  BY <1>1 DEF page
<1> HIDE DEF new, d
<1>12. Typed'
  BY <1>4, <1>6, <1>8, <1>10, <1>11 DEF PageInv, Typed
<1>13. Single' /\ ClarificationsEnd'
  BY <1>6, <1>11 DEF PageInv, Single, AtMostOne, ClarificationsEnd
<1>14. Numbered'
  <2>1. \A r \in requests' : r.ask <= asks'
    BY <1>3, <1>5, <1>6, <1>11 DEF PageInv, Numbered, Call
  <2> QED
    BY <2>1, <1>3, <1>4, <1>6, <1>8, <1>11 DEF Numbered, AtMostOne, Pending
<1>15. CallMatches'
  <2>1. \A r \in requests : r.ask = d.ask =>
          /\ r.op = d.op /\ r.text = d.text /\ r.about = d.about
          /\ d.session # {} => d.session = {r.session}
    BY <1>4 DEF PageInv, CallMatches
  <2>2. /\ new.op = d.op /\ new.text = d.text /\ new.about = d.about
        /\ d.session # {} => d.session = {new.session}
    BY <1>4, <1>5, <1>9
  <2> QED
    BY <2>1, <2>2, <1>6 DEF CallMatches
<1>16. CallInv' /\ RepliesInv'
  BY <1>4, <1>5, <1>6, <1>11 DEF PageInv, CallInv, RepliesInv
<1>17. PageIsOfOneReply'
  BY <1>4, <1>6, <1>11 DEF PageInv, PageIsOfOneReply, ThreadIsOfResult, PanelIsOfResult,
     NoteOnlyOnManualRuns, NothingFromBefore
<1> QED
  BY <1>12, <1>13, <1>14, <1>15, <1>16, <1>17 DEF PageInv

\* y is request x with another outcome.
SameRequest(x, y) ==
  /\ x.ask = y.ask /\ x.op = y.op /\ x.text = y.text /\ x.about = y.about
  /\ x.session = y.session

(* Steps of the server that issue no request: what is left of a request     *)
(* keeps its number and what it sends.                                     *)
LEMMA ServerStep ==
  ASSUME PageInv, requests' \subseteq Request, history' \subseteq HistoryRow,
         \A x \in requests' : \E y \in requests : SameRequest(x, y),
         \A x \in requests' :
           x.pc = "clarification" => x.op # "sql" /\ MayAsk(x.about.exchanges),
         UNCHANGED <<page, call, asks, since, sessions>>
  PROVE  PageInv'
<1>1. UNCHANGED <<box, result, thread, error, manual, panel>>
  BY DEF page
<1>2. Typed'
  BY <1>1 DEF PageInv, Typed
<1>3. Numbered'
  <2>1. \A x \in requests' : x.ask <= asks
    BY DEF PageInv, Numbered, SameRequest
  <2> QED
    BY <2>1 DEF PageInv, Numbered, Pending
<1>4. CallMatches'
  BY DEF PageInv, CallMatches, SameRequest
<1>5. Single' /\ CallInv' /\ RepliesInv'
  BY <1>1 DEF PageInv, Single, AtMostOne, CallInv, RepliesInv
<1>6. PageIsOfOneReply' /\ ClarificationsEnd'
  BY <1>1 DEF PageInv, PageIsOfOneReply, ThreadIsOfResult, PanelIsOfResult,
     NoteOnlyOnManualRuns, NothingFromBefore, ClarificationsEnd
<1> QED
  BY <1>2, <1>3, <1>4, <1>5, <1>6 DEF PageInv

(* A run that ends leaves its request with the outcome, if it is awaited.   *)
LEMMA BecomeEffect ==
  ASSUME PageInv, NEW r \in requests, NEW pc \in {"error", "provider"} \cup Kind,
         pc = "clarification" => r.op # "sql" /\ MayAsk(r.about.exchanges), Become(r, pc)
  PROVE  /\ requests' \subseteq Request
         /\ \A x \in requests' : \E y \in requests : SameRequest(x, y)
         /\ \A x \in requests' :
              x.pc = "clarification" => x.op # "sql" /\ MayAsk(x.about.exchanges)
<1> DEFINE q == [r EXCEPT !.pc = pc]
<1>1. r \in Request /\ requests \subseteq Request
  BY DEF PageInv, Typed
<1>2. /\ q \in Request /\ SameRequest(q, r) /\ q.pc = pc /\ q.op = r.op /\ q.about = r.about
  BY <1>1 DEF Request, SameRequest
<1>3. \A x \in requests' : x \in requests \/ x = q
  BY DEF Become
<1> HIDE DEF q
<1>4. \A x \in requests : SameRequest(x, x)
  BY DEF SameRequest
<1>5. \A x \in requests :
        x.pc = "clarification" => x.op # "sql" /\ MayAsk(x.about.exchanges)
  BY DEF PageInv, RepliesInv
<1> QED
  BY <1>1, <1>2, <1>3, <1>4, <1>5

(* A recorded row is one of the history's rows.                            *)
LEMMA RecordEffect ==
  ASSUME PageInv, NEW r \in requests, NEW sql \in SUBSET About, Record(r, sql)
  PROVE  history' \subseteq HistoryRow
<1> DEFINE row == [session |-> r.session, sql |-> sql,
                   text |-> IF r.op = "sql" THEN "edited" ELSE r.text]
<1>1. history \subseteq HistoryRow /\ r \in Request
  BY DEF PageInv, Typed
<1>2. row \in HistoryRow
  BY <1>1 DEF Request, HistoryRow, Text
<1> QED
  BY <1>1, <1>2 DEF Record

(* Runs end, fail or are cancelled, awaited or not.                        *)
LEMMA RunStep ==
  ASSUME PageInv, NEW r \in requests, Finish(r) \/ Raise(r) \/ Cancel(r)
  PROVE  PageInv'
<1>1. /\ requests \subseteq Request /\ history \subseteq HistoryRow
      /\ {} \in SUBSET About /\ {r.about} \in SUBSET About
  BY DEF PageInv, Typed, Request
<1>2. CASE Finish(r)
  <2>1. PICK kind \in Kind :
          /\ kind = "clarification" => MayAsk(r.about.exchanges)
          /\ r.op = "sql" => kind = "answer"
          /\ Become(r, kind)
          /\ Record(r, IF kind = "answer" THEN {r.about} ELSE {})
    BY <1>2 DEF Finish
  <2>2. (IF kind = "answer" THEN {r.about} ELSE {}) \in SUBSET About
    BY <1>1
  <2>3. history' \subseteq HistoryRow
    BY <2>1, <2>2, RecordEffect
  <2>4. kind = "clarification" => r.op # "sql" /\ MayAsk(r.about.exchanges)
    BY <2>1
  <2>5. /\ requests' \subseteq Request
        /\ \A x \in requests' : \E y \in requests : SameRequest(x, y)
        /\ \A x \in requests' :
             x.pc = "clarification" => x.op # "sql" /\ MayAsk(x.about.exchanges)
    BY <2>1, <2>4, BecomeEffect
  <2> QED
    BY <1>2, <2>3, <2>5, ServerStep DEF Finish
<1>3. CASE Raise(r)
  <2>1. history' \subseteq HistoryRow
    BY <1>1, <1>3, RecordEffect DEF Raise
  <2>2. PICK pc \in {"error", "provider"} : Become(r, pc)
    BY <1>3 DEF Raise
  <2>3. /\ requests' \subseteq Request
        /\ \A x \in requests' : \E y \in requests : SameRequest(x, y)
        /\ \A x \in requests' :
             x.pc = "clarification" => x.op # "sql" /\ MayAsk(x.about.exchanges)
    BY <2>2, BecomeEffect
  <2> QED
    BY <1>3, <2>1, <2>3, ServerStep DEF Raise
<1>4. CASE Cancel(r)
  <2>1. requests' \subseteq requests /\ UNCHANGED <<page, call, asks, since, sessions, history>>
    BY <1>4 DEF Cancel
  <2>2. \A x \in requests' :
          x.pc = "clarification" => x.op # "sql" /\ MayAsk(x.about.exchanges)
    BY <2>1 DEF PageInv, RepliesInv
  <2>3. \A x \in requests' : \E y \in requests : SameRequest(x, y)
    BY <2>1 DEF SameRequest
  <2> QED
    BY <1>1, <2>1, <2>2, <2>3, ServerStep
<1> QED
  BY <1>2, <1>3, <1>4

-----------------------------------------------------------------------------
(* What comes back to the page. *)

(* A stream that falls silent leaves the call as it was sent.              *)
LEMMA SilentStep ==
  ASSUME PageInv, GoesSilent
  PROVE  PageInv'
<1>1. PICK c \in call : /\ call' = {[c EXCEPT !.silent = TRUE]}
                        /\ UNCHANGED <<page, asks, since, server>>
  BY DEF GoesSilent
<1> DEFINE d == [c EXCEPT !.silent = TRUE]
<1>2. c \in Call /\ c.ask = asks /\ sessions + Pending(c) <= 2 * asks /\ AtMostOne(c.session)
  BY DEF PageInv, Typed, Numbered
<1>3. /\ d \in Call /\ d.ask = c.ask /\ d.op = c.op /\ d.leg = c.leg /\ d.text = c.text
      /\ d.about = c.about /\ d.session = c.session /\ d.accepted = c.accepted
  BY <1>2 DEF Call
<1>4. call' = {d}
  BY <1>1
<1> HIDE DEF d
<1>5. UNCHANGED <<box, result, thread, error, manual, panel, asks, since, requests, sessions,
                  history>>
  BY <1>1 DEF page, server
<1>6. Typed' /\ Single'
  BY <1>3, <1>4, <1>5 DEF PageInv, Typed, Single, AtMostOne
<1>7. Numbered'
  BY <1>2, <1>3, <1>4, <1>5 DEF PageInv, Numbered, Pending, AtMostOne
<1>8. CallMatches' /\ CallInv' /\ RepliesInv'
  BY <1>3, <1>4, <1>5 DEF PageInv, CallMatches, CallInv, RepliesInv
<1>9. PageIsOfOneReply' /\ ClarificationsEnd'
  BY <1>3, <1>4, <1>5 DEF PageInv, PageIsOfOneReply, ThreadIsOfResult, PanelIsOfResult,
     NoteOnlyOnManualRuns, NothingFromBefore, ClarificationsEnd
<1> QED
  BY <1>6, <1>7, <1>8, <1>9 DEF PageInv

(* A lost stream leaves the call with one leg, and the same question.      *)
LEMMA FallbackStep ==
  ASSUME PageInv, NEW c \in call, c.leg = "stream", Fallback(c), requests' \subseteq requests,
         UNCHANGED <<page, asks, since, sessions, history>>
  PROVE  PageInv'
<1> DEFINE d == [c EXCEPT !.leg = "run", !.accepted = FALSE, !.silent = FALSE]
<1>1. c \in Call /\ c.ask = asks /\ sessions + Pending(c) <= 2 * asks /\ AtMostOne(c.session)
  BY DEF PageInv, Typed, Numbered
<1>2. /\ d \in Call /\ d.ask = c.ask /\ d.op = c.op /\ d.leg = "run" /\ d.text = c.text
      /\ d.about = c.about /\ d.session = c.session /\ d.accepted = FALSE
  BY <1>1 DEF Call
<1>3. call' = {d}
  BY DEF Fallback
<1> HIDE DEF d
<1>4. UNCHANGED <<box, result, thread, error, manual, panel>>
  BY DEF page
<1>5. Typed' /\ Single'
  BY <1>2, <1>3, <1>4 DEF PageInv, Typed, Single, AtMostOne
<1>6. Numbered'
  <2>1. sessions' + Pending(d) <= 2 * asks'
    BY <1>1, <1>2 DEF PageInv, Typed, Pending, Call
  <2> QED
    BY <1>1, <1>2, <1>3, <2>1 DEF PageInv, Numbered, Pending, AtMostOne
<1>7. CallMatches' /\ CallInv' /\ RepliesInv'
  BY <1>2, <1>3, <1>4 DEF PageInv, CallMatches, CallInv, RepliesInv
<1>8. PageIsOfOneReply' /\ ClarificationsEnd'
  BY <1>2, <1>3, <1>4 DEF PageInv, PageIsOfOneReply, ThreadIsOfResult, PanelIsOfResult,
     NoteOnlyOnManualRuns, NothingFromBefore, ClarificationsEnd
<1> QED
  BY <1>5, <1>6, <1>7, <1>8 DEF PageInv

(* A failed call leaves the page as it is, but for the error.              *)
LEMMA FailStep ==
  ASSUME PageInv, Fail, requests' \subseteq requests
  PROVE  PageInv'
<1>1. /\ call' = {} /\ error' \in BOOLEAN
      /\ UNCHANGED <<box, result, thread, manual, panel, asks, since, sessions, history>>
  BY DEF Fail
<1>2. Typed' /\ Single'
  BY <1>1 DEF PageInv, Typed, Single, AtMostOne
<1>3. Numbered' /\ CallMatches' /\ CallInv' /\ RepliesInv'
  BY <1>1 DEF PageInv, Numbered, CallMatches, CallInv, RepliesInv
<1>4. PageIsOfOneReply' /\ ClarificationsEnd'
  BY <1>1 DEF PageInv, PageIsOfOneReply, ThreadIsOfResult, PanelIsOfResult,
     NoteOnlyOnManualRuns, NothingFromBefore, ClarificationsEnd
<1> QED
  BY <1>2, <1>3, <1>4 DEF PageInv

(* What a request has is dropped at once or goes on alone.                 *)
LEMMA GoAdriftEffect == GoAdrift => requests' \subseteq requests
BY DEF GoAdrift, Adrift

(* A reply replaces the page's, with the thread, the note and the panel     *)
(* that are its own: a first clarification opens a thread, a follow-up's    *)
(* continues the one the call was made from.                               *)
LEMMA DeliverStep ==
  ASSUME PageInv, NEW r \in requests, Deliver(r)
  PROVE  PageInv'
<1>1. PICK c \in call : c.ask = r.ask /\ c.leg = r.leg
  BY DEF Deliver, Heard
<1>2. /\ r.pc \in Kind /\ call' = {} /\ requests' = requests \ {r}
      /\ result' = {ReplyOf(r)} /\ manual' = (IF r.op = "sql" THEN {r.text} ELSE manual)
      /\ panel' = PanelAfter(r)
      /\ UNCHANGED <<box, error, asks, since, sessions, history>>
  BY DEF Deliver
<1>3. /\ r \in Request /\ c \in Call /\ thread \subseteq Thread
      /\ AtMostOne(thread) /\ AtMostOne(manual)
      /\ r.op = c.op /\ r.text = c.text /\ r.about = c.about
      /\ c.session # {} => c.session = {r.session}
      /\ r.ask > since
      /\ c.op # "sql" => manual = {}
      /\ r.pc = "clarification" => r.op # "sql" /\ MayAsk(r.about.exchanges)
  BY <1>1 DEF PageInv, Typed, Single, CallMatches, CallInv, RepliesInv, PageIsOfOneReply,
              NothingFromBefore
<1> DEFINE a == ReplyOf(r)
<1>4. /\ a \in Reply /\ a.ask = r.ask /\ a.op = r.op /\ a.about = r.about /\ a.kind = r.pc
      /\ a.session = r.session
  BY <1>2, <1>3 DEF ReplyOf, Reply, Request
<1>5. result' = {a}
  BY <1>2
<1> HIDE DEF a
<1>6. panel' = {r.session}
  <2>1. CASE r.op = "followup"
    BY <1>2, <1>3, <2>1 DEF PanelAfter, PageInv, CallInv
  <2>2. CASE r.op # "followup"
    BY <1>2, <2>2 DEF PanelAfter
  <2> QED
    BY <2>1, <2>2
<1>7. /\ thread' \subseteq Thread /\ AtMostOne(thread')
      /\ \A t \in thread' :
           /\ t.session = r.session
           /\ [original |-> t.original, exchanges |-> t.exchanges] = r.about
           /\ r.pc = "clarification" => t.exchanges < CLARIFICATION_ROUND_CAP
  <2>1. CASE r.op = "fresh" /\ r.pc = "clarification"
    <3> DEFINE u == [original |-> r.text, session |-> r.session, exchanges |-> 0]
    <3>1. thread' = {u}
      BY <2>1 DEF Deliver
    <3>2. u \in Thread /\ u.session = r.session /\ u.original = r.text /\ u.exchanges = 0
      BY <1>3 DEF Thread, Request, CLARIFICATION_ROUND_CAP
    <3>3. r.about = [original |-> r.text, exchanges |-> 0]
      BY <1>3, <2>1 DEF PageInv, CallInv
    <3> HIDE DEF u
    <3> QED
      BY <3>1, <3>2, <3>3 DEF AtMostOne, CLARIFICATION_ROUND_CAP
  <2>2. CASE r.op = "followup"
    <3>1. thread' = {[t EXCEPT !.exchanges = ExchangesSent(t)] : t \in thread}
      BY <2>2 DEF Deliver
    <3>2. ASSUME NEW t \in thread
          PROVE  LET u == [t EXCEPT !.exchanges = ExchangesSent(t)]
                 IN  /\ u \in Thread /\ u.session = r.session
                     /\ [original |-> u.original, exchanges |-> u.exchanges] = r.about
                     /\ u.exchanges = r.about.exchanges
      <4>1. /\ c.session = {t.session}
            /\ c.about = [original |-> t.original, exchanges |-> ExchangesSent(t)]
        BY <1>3, <2>2 DEF PageInv, CallInv
      <4>2. t.session = r.session
        BY <1>3, <4>1
      <4>3. r.about = [original |-> t.original, exchanges |-> ExchangesSent(t)]
        BY <1>3, <4>1
      <4>4. ExchangesSent(t) \in 0..CLARIFICATION_ROUND_CAP
        BY <1>3, <4>3 DEF Request, About
      <4>5. t \in Thread
        BY <1>3
      <4> QED
        BY <4>2, <4>3, <4>4, <4>5 DEF Thread
    <3>3. AtMostOne(thread')
      BY <1>3, <3>1 DEF AtMostOne
    <3> QED
      BY <1>3, <3>1, <3>2, <3>3 DEF MayAsk
  <2>3. CASE ~(r.op = "fresh" /\ r.pc = "clarification") /\ r.op # "followup"
    <3>1. thread' = {}
      BY <2>3 DEF Deliver
    <3> QED
      BY <3>1 DEF AtMostOne
  <2> QED
    BY <2>1, <2>2, <2>3
<1>8. /\ manual' \subseteq Text /\ AtMostOne(manual')
      /\ manual' # {} => r.op = "sql"
  BY <1>2, <1>3 DEF PageInv, Typed, Request, AtMostOne
<1>9. Typed'
  BY <1>2, <1>3, <1>4, <1>5, <1>6, <1>7, <1>8 DEF PageInv, Typed, Request
<1>10. Single'
  <2>1. AtMostOne(result') /\ AtMostOne(panel') /\ AtMostOne(call')
    BY <1>2, <1>5, <1>6 DEF AtMostOne
  <2> QED
    BY <2>1, <1>7, <1>8, Zenon DEF Single
<1>11. Numbered' /\ CallMatches' /\ CallInv' /\ RepliesInv'
  BY <1>2, <1>3, <1>4, <1>5 DEF PageInv, Numbered, CallMatches, CallInv, RepliesInv
<1>12. ThreadIsOfResult' /\ PanelIsOfResult' /\ NoteOnlyOnManualRuns'
  <2>1. ThreadIsOfResult'
    BY <1>4, <1>5, <1>7 DEF ThreadIsOfResult
  <2>2. PanelIsOfResult'
    BY <1>4, <1>5, <1>6 DEF PanelIsOfResult
  <2>3. NoteOnlyOnManualRuns'
    BY <1>4, <1>5, <1>8 DEF NoteOnlyOnManualRuns
  <2> QED
    BY <2>1, <2>2, <2>3
<1>13. NothingFromBefore' /\ ClarificationsEnd'
  BY <1>2, <1>3, <1>4, <1>5, <1>7 DEF NothingFromBefore, ClarificationsEnd
<1> QED
  BY <1>9, <1>10, <1>11, <1>12, <1>13 DEF PageInv, PageIsOfOneReply

(* Every answer of the transport to the page keeps the invariant.          *)
LEMMA ArrivalStep ==
  ASSUME PageInv, NEW r \in requests, Deliver(r) \/ StreamReportsError(r) \/ CallFails(r)
  PROVE  PageInv'
<1>1. CASE Deliver(r)
  BY <1>1, DeliverStep
<1>2. CASE StreamReportsError(r)
  <2>1. PICK c \in call : Fallback(c)
    BY <1>2 DEF StreamReportsError
  <2>2. c.leg = "stream"
    <3>1. PICK d \in call : d.leg = r.leg
      BY <1>2 DEF StreamReportsError, Heard
    <3> QED
      BY <1>2, <3>1 DEF StreamReportsError, PageInv, Single, AtMostOne
  <2> QED
    BY <1>2, <2>1, <2>2, FallbackStep DEF StreamReportsError
<1>3. CASE CallFails(r)
  BY <1>3, FailStep DEF CallFails
<1> QED
  BY <1>1, <1>2, <1>3

(* Every step keeps the invariant.                                         *)
LEMMA PageNext == PageInv /\ [Next]_vars => PageInv'
<1> SUFFICES ASSUME PageInv, [Next]_vars PROVE PageInv'
  OBVIOUS
<1>1. CASE Gesture
  BY <1>1, GestureStep
<1>2. CASE Accept
  BY <1>2, AcceptStep
<1>3. CASE Arrival
  BY <1>3, ArrivalStep DEF Arrival
<1>4. CASE StreamLost
  BY <1>4, GoAdriftEffect, FallbackStep DEF StreamLost
<1>5. CASE ConnectionLost
  BY <1>5, GoAdriftEffect, FailStep DEF ConnectionLost
<1>6. CASE \E r \in requests : Finish(r) \/ Raise(r) \/ Cancel(r)
  BY <1>6, RunStep
<1>7. CASE GoesSilent
  BY <1>7, SilentStep
<1>8. CASE UNCHANGED vars
  <2>1. /\ UNCHANGED <<box, result, thread, error, manual, panel>>
        /\ UNCHANGED <<call, asks, since, requests, sessions, history>>
    BY <1>8 DEF vars, page, server
  <2> QED
    BY <2>1 DEF PageInv, Typed, Single, AtMostOne, Numbered, Pending, CallMatches, CallInv,
       RepliesInv, PageIsOfOneReply, ThreadIsOfResult, PanelIsOfResult, NoteOnlyOnManualRuns,
       NothingFromBefore, ClarificationsEnd
<1> QED
  BY <1>1, <1>2, <1>3, <1>4, <1>5, <1>6, <1>7, <1>8 DEF Next

-----------------------------------------------------------------------------
(* The page, the call in flight, the requests and the tables keep their    *)
(* types, and PageInv holds throughout.                                    *)
THEOREM PageInvariant == Spec => [](TypeOK /\ PageInv)
<1>1. Spec => []PageInv
  BY PageInit, PageNext, PTL DEF Spec
<1> QED
  BY <1>1, PageInvTypes, PTL

(* Whatever is beside a reply on the page is of that reply.                *)
THEOREM OneReplyPerPage == Spec => []PageIsOfOneReply
<1>1. PageInv => PageIsOfOneReply
  BY DEF PageInv
<1> QED
  BY <1>1, PageInvariant, PTL

(* No conversation is asked more clarifying questions than the cap.        *)
THEOREM CapOnClarifications == Spec => []ClarificationsEnd
<1>1. PageInv => ClarificationsEnd
  BY DEF PageInv
<1> QED
  BY <1>1, PageInvariant, PTL

=============================================================================
