----------------------------- MODULE OciClient -----------------------------
(***************************************************************************)
(* The OCI registry client under one detection pass.  What RegistryPass    *)
(* takes as one call is here a ping and then the pages of a tag list or    *)
(* one manifest, each an HTTP request that go-containerregistry tries up   *)
(* to Attempts times over a pooled connection.  An attempt dials, waits    *)
(* for headers and reads a body; hangTraceTransport closes an HTTP/2       *)
(* connection on which no headers came.                                    *)
(*                                                                         *)
(* Time is the time stuck sockets cost, in seconds: a healthy step costs   *)
(* none.  Once anything else is slow or fails in a request (`upset`) its   *)
(* clock is not followed any further.                                      *)
(***************************************************************************)
EXTENDS CheckRun

CONSTANTS
  Http2,           \* hosts that speak HTTP/2
  Attempts,        \* tries of one HTTP request
  MaxPages,        \* bound on the pages of a tag list
  DialTimeout,     \* registryDialTimeout
  TlsTimeout,      \* registryTLSHandshakeTimeout
  HeaderTimeout,   \* registryResponseHeaderTimeout
  Backoff,         \* pause after each try but the last
  TryTime,         \* the most a stuck socket costs, with the pause after it
  Deadline         \* timeouts.registry

ASSUME ClientAssumption ==
  /\ Http2 \subseteq Hosts
  /\ Attempts \in Nat \ {0} /\ MaxPages \in Nat \ {0}
  /\ {DialTimeout, TlsTimeout, HeaderTimeout, Deadline} \subseteq Nat
  /\ Backoff \in [1..Attempts - 1 -> Nat]

\* transport.go: the tries of a request fit under timeouts.registry.
ASSUME BudgetAssumption ==
  /\ TryTime \in Nat
  /\ \A seconds \in {DialTimeout, TlsTimeout, HeaderTimeout} :
       /\ seconds <= TryTime
       /\ \A i \in 1..Attempts - 1 : seconds + Backoff[i] <= TryTime
  /\ (Attempts - 1) * TryTime <= Deadline

VARIABLES
  conn,      \* the pooled connection of each host
  trip,      \* phase of the attempt under way
  page,      \* 0 for the ping, then pages; a manifest counts as page 1
  attempt,   \* which try of the HTTP request this is
  pending,   \* history: the registry has more of what this call wants
  spent,     \* history: seconds of this request lost to stuck sockets
  stuck,     \* history: sockets that were stuck under this request
  upset      \* history: something other than a stuck socket went wrong

callVars   == <<trip, page, attempt, pending>>
clockVars  == <<spent, stuck, upset>>
clientVars == <<vars, conn, callVars, clockVars>>

ClientTypeOK ==
  /\ TypeOK
  /\ conn \in [Hosts -> {"none", "live", "silent"}]
  /\ trip \in {"ready", "dialing", "waiting", "reading", "pausing"}
  /\ page \in 0..MaxPages /\ attempt \in 1..Attempts
  /\ pending \in BOOLEAN /\ upset \in BOOLEAN
  /\ spent \in 0..Deadline /\ stuck \in Nat

ClientInit ==
  /\ Init
  /\ conn = [h \in Hosts |-> "none"]
  /\ trip = "ready" /\ page = 0 /\ attempt = 1 /\ pending = TRUE
  /\ spent = 0 /\ stuck = 0 /\ upset = FALSE

-----------------------------------------------------------------------------
(* What a request of the engine and a call of it start from.               *)

StartCall == trip' = "ready" /\ page' = 0 /\ attempt' = 1 /\ pending' = TRUE

\* ListTags or TagDigest returns to the pass.
EndCall == trip' = "ready" /\ page' = 0 /\ attempt' = 1

ClientAsks(c) ==
  /\ AskRegistry(c)
  /\ StartCall
  /\ spent' = 0 /\ upset' = FALSE
  /\ stuck' = IF conn[fleet[c].host] = "silent" THEN 1 ELSE 0
  /\ UNCHANGED conn

CallsAgain == SleepEnds /\ StartCall /\ UNCHANGED <<runVars, conn, clockVars>>

\* The request's clock moves on, at most to its deadline.
Elapse(seconds) ==
  IF upset THEN UNCHANGED spent
  ELSE spent + seconds <= Deadline /\ spent' = spent + seconds

Upset == upset' = TRUE /\ spent' = 0 /\ stuck' = 0

-----------------------------------------------------------------------------
(* One attempt.                                                            *)

\* A pooled connection is used again, or one is dialled.
BeginTrip ==
  /\ step = "calling" /\ trip = "ready"
  /\ trip' = IF conn[key.host] = "none" THEN "dialing" ELSE "waiting"
  /\ UNCHANGED <<vars, conn, page, attempt, pending, clockVars>>

\* GotConn: connected and shaken hands.
GotConn ==
  /\ step = "calling" /\ trip = "dialing"
  /\ conn' = [conn EXCEPT ![key.host] = "live"]
  /\ trip' = "waiting"
  /\ UNCHANGED <<vars, page, attempt, pending, clockVars>>

\* The retrying transport pauses and tries once more; the last failure is what
\* the call returns.
RetryOr(final) ==
  \/ /\ attempt < Attempts
     /\ attempt' = attempt + 1 /\ trip' = "pausing"
     /\ UNCHANGED <<passVars, page>>
  \/ attempt = Attempts /\ final /\ EndCall

FailsWith(result) == CallFails /\ answer' = result

\* The dial or the TLS handshake runs into its own time-out.
DialStuck ==
  /\ step = "calling" /\ trip = "dialing"
  /\ \E seconds \in {DialTimeout, TlsTimeout} : Elapse(seconds)
  /\ stuck' = IF upset THEN stuck ELSE stuck + 1
  /\ RetryOr(FailsWith("network"))
  /\ UNCHANGED <<runVars, conn, pending, upset>>

\* Refused, no such host, a bad certificate: not worth another try.
DialRefused ==
  /\ step = "calling" /\ trip = "dialing"
  /\ Upset
  /\ FailsWith("network") /\ EndCall
  /\ UNCHANGED <<runVars, conn, pending>>

PauseEnds ==
  /\ step = "calling" /\ trip = "pausing"
  /\ Elapse(Backoff[attempt - 1])
  /\ trip' = "ready"
  /\ UNCHANGED <<vars, conn, page, attempt, pending, stuck, upset>>

Without(h) == [conn EXCEPT ![h] = "none"]

\* Mutation of Evicted: net/http alone, which ends the stream of an HTTP/2
\* connection and keeps the connection.
EvictedByNetHttp == IF key.host \in Http2 THEN conn ELSE Without(key.host)

\* evictHungHTTP2Conn, told the connection by GotConn: an HTTP/2 connection is
\* closed unless the context was done first; net/http closes any other.
Evicted == IF key.host \in Http2 /\ Done THEN conn ELSE Without(key.host)

\* No headers within ResponseHeaderTimeout: a silent connection, or a registry
\* that takes too long on a live one.
HeadersTimeOut ==
  /\ step = "calling" /\ trip = "waiting"
  /\ IF conn[key.host] = "silent"
     THEN Elapse(HeaderTimeout) /\ UNCHANGED <<stuck, upset>>
     ELSE Upset
  /\ conn' = Evicted
  /\ RetryOr(FailsWith("network"))
  /\ UNCHANGED <<runVars, pending>>

\* Reset or closed by the peer: tried again while waiting, when the library
\* knows the error; final in the middle of a body.
ConnectionBreaks ==
  /\ step = "calling" /\ trip \in {"waiting", "reading"}
  /\ conn' = Without(key.host)
  /\ Upset
  /\ \/ trip = "waiting" /\ RetryOr(FailsWith("network"))
     \/ (\E result \in {"network", "other"} : FailsWith(result)) /\ EndCall
  /\ UNCHANGED <<runVars, pending>>

-----------------------------------------------------------------------------
(* Answers.                                                                *)

Answering == step = "calling" /\ trip = "waiting" /\ conn[key.host] = "live"

HeadersArrive ==
  /\ Answering
  /\ trip' = "reading"
  /\ UNCHANGED <<vars, conn, page, attempt, pending, clockVars>>

\* parseRetryAfterHeader as the pass sees it: seconds or a date ahead are a wait,
\* everything else is none.
CapturedWait(header) ==
  IF header \in {"short", "long"} THEN header ELSE "none"

\* 429: mapRegistryError hands on the wait that retryAfterCapture found.
TooManyRequests ==
  /\ Answering
  /\ \E header \in {"absent", "garbled", "past", "short", "long"} :
       IF CapturedWait(header) = "short"
       THEN RefusedShortly \/ (RefusedForGood /\ strikes' = UpToTwo(strikes + 1))
       ELSE RefusedForGood /\ strikes' = 2
  /\ EndCall /\ Upset
  /\ UNCHANGED <<runVars, conn, pending>>

\* 5xx: the library tries most of them again by itself.
ServerError ==
  /\ Answering
  /\ Upset
  /\ RetryOr(CallFindsServerError) \/ (CallFindsServerError /\ EndCall)
  /\ UNCHANGED <<runVars, conn, pending>>

\* mapRegistryError: 404, 401 and 403 have names of their own (the engine skips
\* the container for each of them), any other status has none.
Refusal ==
  /\ Answering
  /\ \E result \in {"missing", "other"} : FailsWith(result)
  /\ EndCall /\ Upset
  /\ UNCHANGED <<runVars, conn, pending>>

Body == step = "calling" /\ trip = "reading" /\ conn[key.host] = "live"

\* The ping, or a page that names a next one, is followed by the next request.
PartRead ==
  /\ Body
  /\ page = 0 \/ (key.op = "list" /\ page < MaxPages)
  /\ page' = page + 1 /\ attempt' = 1 /\ trip' = "ready"
  /\ UNCHANGED <<vars, conn, pending, clockVars>>

\* The manifest, or the page that names no next one, ends the call.
LastRead ==
  /\ Body /\ page > 0
  /\ pending' = FALSE
  /\ CallSucceeds /\ EndCall
  /\ UNCHANGED <<runVars, conn, clockVars>>

\* Mutation of BadBody: the pages read so far pass for the list.
BadBodyEndsList ==
  /\ Body
  /\ IF page > 1 THEN CallSucceeds ELSE FailsWith("other")
  /\ EndCall /\ Upset
  /\ UNCHANGED <<runVars, conn, pending>>

\* A body that is not what the library expects fails the call; listTagsOnce
\* throws away the pages it has.
BadBody ==
  /\ Body
  /\ FailsWith("other") /\ EndCall /\ Upset
  /\ UNCHANGED <<runVars, conn, pending>>

-----------------------------------------------------------------------------
(* The connection, the deadline and the end of the pass.                   *)

\* A peer stops answering and says nothing: a lost NAT entry, a dead host.
FallsSilent(h) ==
  /\ conn[h] = "live"
  /\ conn' = [conn EXCEPT ![h] = "silent"]
  /\ IF upset \/ (step = "calling" => key.host # h) THEN UNCHANGED clockVars
     ELSE IF trip = "reading" THEN Upset
     ELSE stuck' = stuck + 1 /\ UNCHANGED <<spent, upset>>
  /\ UNCHANGED <<vars, callVars>>

\* IdleConnTimeout, or the peer closes a connection nobody uses.
IdleCloses(h) ==
  /\ conn[h] # "none"
  /\ step = "calling" /\ key.host = h => trip \in {"ready", "pausing"}
  /\ conn' = Without(h)
  /\ UNCHANGED <<vars, callVars, clockVars>>

\* What a stuck socket or a pause may still take.
Stall ==
  CASE trip = "dialing" -> TlsTimeout
    [] trip = "waiting" /\ conn[key.host] = "silent" -> HeaderTimeout
    [] trip = "pausing" -> Backoff[attempt - 1]
    [] OTHER -> 0

\* timeouts.registry: reached by stuck sockets, or because something was slow.
DeadlinePasses ==
  /\ Expire
  /\ IF step = "calling" /\ ~upset /\ spent + Stall > Deadline
     THEN /\ stuck' = IF trip = "dialing" THEN stuck + 1 ELSE stuck
          /\ UNCHANGED <<spent, upset>>
     ELSE Upset
  /\ UNCHANGED <<runVars, conn, callVars>>

\* The context is done.  An HTTP/2 connection only loses the stream and stays in
\* the pool, silent or not.
GivenUp ==
  /\ CutShort
  /\ conn' = IF trip \in {"waiting", "reading"} /\ key.host \notin Http2
             THEN Without(key.host) ELSE conn
  /\ EndCall
  /\ UNCHANGED <<runVars, pending, clockVars>>

ClientEngineStep ==
  \/ \E c \in Containers : ClientAsks(c)
  \/ /\ \/ \E c \in Containers : SkipUnasked(c) \/ LocalDigestFails(c)
        \/ Conclude \/ SkipFailed \/ Abort \/ Finish
     /\ UNCHANGED <<conn, callVars, clockVars>>

Attempt ==
  \/ BeginTrip \/ GotConn \/ DialStuck \/ DialRefused \/ PauseEnds
  \/ HeadersTimeOut \/ ConnectionBreaks \/ HeadersArrive \/ TooManyRequests
  \/ ServerError \/ Refusal \/ PartRead \/ LastRead \/ BadBody

ClientNext ==
  \/ ClientEngineStep \/ CallsAgain \/ Attempt \/ DeadlinePasses \/ GivenUp
  \/ ~Ended /\ \E h \in Hosts : FallsSilent(h) \/ IdleCloses(h)
  \/ ~Ended /\ Cancel /\ UNCHANGED <<runVars, conn, callVars, clockVars>>

\* As in CheckRun: timers fire and the goroutine goes on.  Nothing is asked of
\* registries, and no connection has to break or answer.
ClientFairness ==
  /\ WF_clientVars(ClientEngineStep)
  /\ WF_clientVars(CallsAgain)
  /\ WF_clientVars(DeadlinePasses)
  /\ WF_clientVars(GivenUp)

ClientSpec == ClientInit /\ [][ClientNext]_clientVars /\ ClientFairness

-----------------------------------------------------------------------------
\* A request that meets fewer stuck sockets than it has tries, and no other
\* trouble, succeeds: every silent connection costs one try and the time of one
\* header time-out, and the deadline leaves room for them (hang_trace.go:146,
\* transport.go:12).
StuckSocketsAreSurvived ==
  [][step = "calling" /\ step' = "answered" /\ answer' # "ok" /\ ~upset' /\ ~cancelled
       => stuck' >= Attempts]_clientVars

\* A tag list or a digest is only ever answered whole: no page that failed
\* midway, and no retry, leaves a shorter list behind for the pass to cache.
AnswersAreWhole ==
  [][step = "calling" /\ answer' = "ok" => ~pending']_clientVars

\* Every step of the client is a step of CheckRun or leaves it alone, so what
\* holds of CheckRun holds with the real client under it.
RefinesCheckRun == Init /\ [][Next]_vars
=============================================================================
