---------------------------- MODULE RegistryPass ----------------------------
(***************************************************************************)
(* What all containers of one detection pass share when they ask           *)
(* registries: results cached by key, hosts that are rate limited for the  *)
(* rest of the pass, and the retries of one request under its deadline.    *)
(*                                                                         *)
(* A pass checks one container at a time on one goroutine, so at most one  *)
(* request is under way.  Its retry functions call each other in tail      *)
(* position; `handler` names the one whose call is out or sleeps before    *)
(* its call.  What a registry answers is chosen afresh at every call.      *)
(***************************************************************************)
EXTENDS Naturals

CONSTANTS
  Hosts,        \* registry hosts
  Names,        \* "repo" of a tag list, "repo#tag" of a digest
  Nothing       \* no result

\* The two caches of Pass, told apart by op.
Keys == [op: {"list", "digest"}, host: Hosts, name: Names]

Failures == {"missing", "rateLimited", "unavailable", "network", "other"}
Results  == {"ok"} \cup Failures

ASSUME PassAssumption == Nothing \notin Results /\ Nothing \notin Keys

VARIABLES
  cache,       \* listTags and tagDigests
  limited,     \* rateLimited
  step,        \* what the request is doing
  handler,     \* whose call it is
  key,         \* what is asked for
  answer,      \* what ListTags or TagDigest returns to the engine
  expired,     \* the deadline timeouts.registry of the request has passed
  cancelled,   \* the context of the whole pass is done
  fetched,     \* history: how often each key was asked of its registry (2: or more)
  strikes,     \* history: 429 answers to this request; 2 for a long Retry-After
  waits,       \* history: Retry-After sleeps of this request (2: or more)
  troubled     \* history: keys with an answer other than success, or none in time

memoVars    == <<cache, limited>>
requestVars == <<step, handler, key, answer, expired>>
historyVars == <<fetched, strikes, waits, troubled>>
passVars    == <<memoVars, requestVars, cancelled, historyVars>>

UpToTwo(n) == IF n < 2 THEN n ELSE 2

PassTypeOK ==
  /\ cache \in [Keys -> Results \cup {Nothing}]
  /\ limited \subseteq Hosts
  /\ step \in {"idle", "calling", "sleeping", "answered"}
  /\ handler \in {"first", "afterRateLimit", "afterServerError"}
  /\ key \in Keys \cup {Nothing}
  /\ answer \in Results \cup {Nothing}
  /\ expired \in BOOLEAN /\ cancelled \in BOOLEAN
  /\ fetched \in [Keys -> 0..2]
  /\ strikes \in 0..2 /\ waits \in 0..2
  /\ troubled \subseteq Keys

\* registrypass.New: nothing survives from an earlier pass.
PassInit ==
  /\ cache = [k \in Keys |-> Nothing] /\ limited = {}
  /\ step = "idle" /\ handler = "first" /\ key = Nothing /\ answer = Nothing
  /\ expired = FALSE /\ cancelled = FALSE
  /\ fetched = [k \in Keys |-> 0]
  /\ strikes = 0 /\ waits = 0 /\ troubled = {}

-----------------------------------------------------------------------------
\* Mutation of Cached: the mark of one host stops every host.
CachedAnyHost(k) == IF limited # {} THEN "rateLimited" ELSE cache[k]

\* Mutation of Cached: the mark is looked up after the cached result.
CachedUnmarked(k) == cache[k]

\* cachedListTags and cachedTagDigest: the mark of the host is looked at first
\* and hides a result that was cached before.
Cached(k) == IF k.host \in limited THEN "rateLimited" ELSE cache[k]

\* The engine asks for k under a deadline of its own.
Ask(k) ==
  /\ step = "idle"
  /\ key' = k /\ handler' = "first" /\ expired' = FALSE
  /\ strikes' = 0 /\ waits' = 0
  /\ IF Cached(k) # Nothing
     THEN /\ step' = "answered" /\ answer' = Cached(k)
          /\ UNCHANGED fetched
     ELSE /\ step' = "calling" /\ answer' = Nothing
          /\ fetched' = [fetched EXCEPT ![k] = UpToTwo(@ + 1)]
  /\ UNCHANGED <<memoVars, cancelled, troubled>>

\* The engine takes the answer and releases the request's context.
Take ==
  /\ step = "answered"
  /\ step' = "idle" /\ key' = Nothing /\ answer' = Nothing
  /\ UNCHANGED <<memoVars, handler, expired, cancelled, historyVars>>

-----------------------------------------------------------------------------
(* fetchWithRetry, handleRateLimit and retryServerError.                   *)

Done == expired \/ cancelled

\* Mutation of Return: a failure is not kept, so a twin asks again.
ReturnKeepingSuccess(result) ==
  /\ cache' = IF result = "ok" THEN [cache EXCEPT ![key] = result] ELSE cache
  /\ answer' = result /\ step' = "answered"

\* Whatever a request ends with is stored and returned, an error too.
Return(result) ==
  /\ cache' = [cache EXCEPT ![key] = result]
  /\ answer' = result /\ step' = "answered"

SleepBefore(h) ==
  /\ step' = "sleeping" /\ handler' = h
  /\ UNCHANGED <<memoVars, answer>>

\* The call succeeds.
CallSucceeds ==
  /\ step = "calling"
  /\ Return("ok")
  /\ UNCHANGED <<limited, handler, key, expired, cancelled, historyVars>>

\* Not found, unauthorized, a network error or anything unknown is final.
CallFails ==
  /\ step = "calling"
  /\ \E result \in {"missing", "network", "other"} : Return(result)
  /\ troubled' = troubled \cup {key}
  /\ UNCHANGED <<limited, handler, key, expired, cancelled, fetched, strikes, waits>>

\* 429 with a Retry-After of at most 10 seconds: sleep, then call again, unless
\* handleRateLimit made this very call.
RefusedShortly ==
  /\ step = "calling" /\ handler # "afterRateLimit"
  /\ SleepBefore("afterRateLimit")
  /\ strikes' = UpToTwo(strikes + 1) /\ waits' = UpToTwo(waits + 1)
  /\ troubled' = troubled \cup {key}
  /\ UNCHANGED <<key, expired, cancelled, fetched>>

\* Mutation of RefusedForGood: the first 429 marks the host, whatever its
\* Retry-After.
RefusedAtOnce ==
  /\ step = "calling"
  /\ limited' = limited \cup {key.host}
  /\ Return("rateLimited")
  /\ strikes' = UpToTwo(strikes + 1)
  /\ troubled' = troubled \cup {key}
  /\ UNCHANGED <<handler, key, expired, cancelled, fetched, waits>>

\* 429 with a long or missing Retry-After, or any 429 to the call that followed
\* a sleep: the host is marked.
RefusedForGood ==
  /\ step = "calling"
  /\ \E long \in BOOLEAN :
       /\ long \/ handler = "afterRateLimit"
       /\ strikes' = IF long THEN 2 ELSE UpToTwo(strikes + 1)
  /\ limited' = limited \cup {key.host}
  /\ Return("rateLimited")
  /\ troubled' = troubled \cup {key}
  /\ UNCHANGED <<handler, key, expired, cancelled, fetched, waits>>

\* 5xx: registry5xxMaxAttempts is 2, so one backoff and one more call.
CallFindsServerError ==
  /\ step = "calling"
  /\ IF handler = "afterServerError"
     THEN Return("unavailable") /\ UNCHANGED <<limited, handler>>
     ELSE SleepBefore("afterServerError")
  /\ troubled' = troubled \cup {key}
  /\ UNCHANGED <<key, expired, cancelled, fetched, strikes, waits>>

\* sleepContext: the timer fires; with the context done as well, either may be
\* taken.
SleepEnds ==
  /\ step = "sleeping"
  /\ step' = "calling"
  /\ UNCHANGED <<memoVars, handler, key, answer, expired, cancelled, historyVars>>

\* A sleep or a call that is out returns the context's error once it is done.
CutShort ==
  /\ step \in {"calling", "sleeping"} /\ Done
  /\ Return("network")
  /\ troubled' = troubled \cup {key}
  /\ UNCHANGED <<limited, handler, key, expired, cancelled, fetched, strikes, waits>>

CallReturns ==
  CallSucceeds \/ CallFails \/ RefusedShortly \/ RefusedForGood \/ CallFindsServerError

-----------------------------------------------------------------------------
\* Mutation of Expire: the request has no deadline.
ExpireNever == expired /\ UNCHANGED passVars

\* timeouts.registry has passed since the request began.
Expire ==
  /\ step \in {"calling", "sleeping"} /\ ~expired
  /\ expired' = TRUE
  /\ UNCHANGED <<memoVars, step, handler, key, answer, cancelled, historyVars>>

\* SIGINT, SIGTERM or the caller's deadline.
Cancel ==
  /\ ~cancelled
  /\ cancelled' = TRUE
  /\ UNCHANGED <<memoVars, requestVars, historyVars>>
=============================================================================
