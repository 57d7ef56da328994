--------------------------------- MODULE Health ---------------------------------
(***************************************************************************)
(* GET /health (api/main.py): the database is asked on every call, the LLM *)
(* providers at most once in a while: their state is kept in the module's  *)
(* _llm_health_cache.  A handler is one coroutine; it is interrupted where *)
(* it awaits: the database, and the probe of the embeddings provider.  The *)
(* probe of Anthropic is a blocking call.                                  *)
(*                                                                         *)
(* Time is counted in ticks, and only ages are kept, up to TTL.            *)
(***************************************************************************)
EXTENDS Integers, FiniteSets, FiniteSetsExt

CONSTANTS
  Caller,   \* concurrent calls of /health
  TTL       \* LLM_HEALTH_CACHE_TTL, in ticks

ASSUME TTLAssumption == TTL \in Nat \ {0}

VARIABLES
  keyed,     \* the keys that are set, and not placeholders
  provider,  \* embeddings_provider
  up,        \* what works now; the embeddings are the active provider's
  cache,     \* _llm_health_cache
  call       \* each call

vars == <<keyed, provider, up, cache, call>>

-----------------------------------------------------------------------------
Key == {"anthropic", "openai"}
Provider == {"openai", "ollama"}
Service == {"anthropic", "embeddings", "db"}
Blamed == {"anthropic", "openai", "ollama", "db"}
Age == 0..TTL

\* `connected' are the *_connected flags; `seen' is the age of what it reports
\* of Anthropic (history; the code keeps checked_at, here `age').
LlmHealth == [status : {"unknown", "ok", "degraded"}, connected : SUBSET {"anthropic", "openai", "ollama"},
              reasons : SUBSET Blamed, age : Age, seen : Age]
Answer == [status : {"ok", "degraded"}, reasons : SUBSET Blamed, cached : BOOLEAN, seen : Age]
Call == [pc : {"idle", "llm", "probing"}, db : BOOLEAN, anthropic : BOOLEAN, age : Age,
         answer : {{}} \cup {{a} : a \in Answer}]

TypeOK ==
  /\ keyed \subseteq Key /\ provider \in Provider /\ up \subseteq Service
  /\ cache \in LlmHealth
  /\ cache.status = "ok" <=> {"anthropic", provider} \subseteq cache.connected
  /\ call \in [Caller -> Call]

Waiting == [pc |-> "idle", db |-> FALSE, anthropic |-> FALSE, age |-> 0, answer |-> {}]

Init ==
  /\ keyed \in SUBSET Key /\ provider \in Provider
  /\ up \in SUBSET Service
  /\ cache = [status |-> "unknown", connected |-> {}, reasons |-> {}, age |-> TTL, seen |-> TTL]
  /\ call = [c \in Caller |-> Waiting]

-----------------------------------------------------------------------------
(* What a refresh finds.                                                     *)

\* A placeholder key is reported not connected without a call.
AnthropicAnswers == "anthropic" \in keyed \cap up
EmbeddingsAnswer == "embeddings" \in up

\* Only the active provider is probed; ollama has no key.
Probed == provider = "ollama" \/ "openai" \in keyed

Reasons(connected) == {"anthropic", provider} \ connected

Refreshed(anthropic, embeddings, age) ==
  LET connected == (IF anthropic THEN {"anthropic"} ELSE {})
                     \cup (IF embeddings THEN {provider} ELSE {})
  IN  [status |-> IF anthropic /\ embeddings THEN "ok" ELSE "degraded",
       connected |-> connected, reasons |-> Reasons(connected), age |-> age, seen |-> age]

-----------------------------------------------------------------------------
\* The database's answer is added to a copy of the reasons.
Reply(c, llm, cached) ==
  call' = [call EXCEPT ![c] =
    [Waiting EXCEPT !.answer =
      {[status |-> IF call[c].db /\ llm.status = "ok" THEN "ok" ELSE "degraded",
        reasons |-> llm.reasons \cup (IF call[c].db THEN {} ELSE {"db"}),
        cached |-> cached, seen |-> llm.seen]}]]

CheckDb(c) ==
  /\ call[c].pc = "idle"
  /\ call' = [call EXCEPT ![c] = [Waiting EXCEPT !.pc = "llm", !.db = "db" \in up]]
  /\ UNCHANGED <<keyed, provider, up, cache>>

\* A cache whose entry, once degraded, is kept.
FreshForever == cache.status # "unknown" /\ (cache.age < TTL \/ cache.status = "degraded")

\* Not the initial "unknown", which would look fresh on a machine just started.
Fresh == cache.status # "unknown" /\ cache.age < TTL

\* The database's failure is added to the cached list itself.
AnswerShared(c) ==
  /\ call[c].pc = "llm" /\ Fresh
  /\ cache' = IF call[c].db THEN cache ELSE [cache EXCEPT !.reasons = @ \cup {"db"}]
  /\ Reply(c, cache, TRUE)
  /\ UNCHANGED <<keyed, provider, up>>

AnswerFromCache(c) ==
  /\ call[c].pc = "llm" /\ Fresh
  /\ Reply(c, cache, TRUE)
  /\ UNCHANGED <<keyed, provider, up, cache>>

\* `now' is read, Anthropic is asked, and the embeddings provider if it is to be.
Refresh(c) ==
  /\ call[c].pc = "llm" /\ ~Fresh
  /\ IF Probed
     THEN /\ call' = [call EXCEPT ![c].pc = "probing", ![c].anthropic = AnthropicAnswers]
          /\ UNCHANGED cache
     ELSE /\ cache' = Refreshed(AnthropicAnswers, FALSE, 0)
          /\ Reply(c, cache', FALSE)
  /\ UNCHANGED <<keyed, provider, up>>

\* A refresh stamped with the time of its end.
FinishStampedLate(c) ==
  /\ call[c].pc = "probing"
  /\ cache' = [Refreshed(call[c].anthropic, EmbeddingsAnswer, call[c].age) EXCEPT !.age = 0]
  /\ Reply(c, cache', FALSE)
  /\ UNCHANGED <<keyed, provider, up>>

\* checked_at is the time before the probes.
Finish(c) ==
  /\ call[c].pc = "probing"
  /\ cache' = Refreshed(call[c].anthropic, EmbeddingsAnswer, call[c].age)
  /\ Reply(c, cache', FALSE)
  /\ UNCHANGED <<keyed, provider, up>>

-----------------------------------------------------------------------------
Older(age) == IF age < TTL THEN age + 1 ELSE TTL

Tick ==
  /\ cache' = [cache EXCEPT !.age = Older(@), !.seen = Older(@)]
  /\ call' = [c \in Caller |-> [call[c] EXCEPT !.age =
                IF call[c].pc = "probing" THEN Older(@) ELSE @]]
  /\ UNCHANGED <<keyed, provider, up>>

\* A service goes down or comes back.
Changes(s) ==
  /\ up' = IF s \in up THEN up \ {s} ELSE up \cup {s}
  /\ UNCHANGED <<keyed, provider, cache, call>>

Handler(c) == AnswerFromCache(c) \/ Refresh(c) \/ Finish(c)

Next ==
  \/ Tick
  \/ \E s \in Service : Changes(s)
  \/ \E c \in Caller : CheckDb(c) \/ Handler(c)

\* The loop resumes a handler whose await is over, a probe ends (its client has a
\* time-out), time passes, and the page polls.
Fairness ==
  /\ WF_vars(Tick)
  /\ \A c \in Caller : WF_vars(CheckDb(c)) /\ WF_vars(Handler(c))

Spec == Init /\ [][Next]_vars /\ Fairness

-----------------------------------------------------------------------------
(* Properties.                                                               *)

Answers == UNION {call[c].answer : c \in Caller}

\* An answer that was not probed for is about less than TTL ago, whoever
\* refreshed the cache and however long it took (checked_at is read first).
CachedAnswerIsRecent == \A a \in Answers : a.cached => a.seen < TTL

\* /health says why when it is degraded, blames nothing when it is not, and never
\* blames the provider that is not in use ("only the ACTIVE embeddings provider
\* can produce an embeddings reason"), whatever other calls added to the reasons.
DegradedSaysWhy ==
  \A a \in Answers : /\ a.status = "degraded" <=> a.reasons # {}
                     /\ a.reasons \subseteq {"anthropic", provider, "db"}

Healthy == up = Service
Configured == "anthropic" \in keyed /\ Probed

\* When what is configured works for good, /health comes to say so and stays so:
\* neither an old failure nor a late one is kept.
HealthIsRegained ==
  (Configured /\ <>[]Healthy) => <>[](\A a \in Answers : a.status = "ok")
=================================================================================
