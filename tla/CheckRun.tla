------------------------------ MODULE CheckRun ------------------------------
(***************************************************************************)
(* One Engine.RunOnce: the containers of the fleet are checked one after   *)
(* the other through one RegistryPass, and each ends up to date, with an   *)
(* update, or skipped with a reason.  Daemon takes a whole run as the one  *)
(* action CheckContainers; this module is what happens inside it.          *)
(***************************************************************************)
EXTENDS RegistryPass

CONSTANT Containers

VARIABLES
  fleet,       \* what each monitored container needs of a registry
  todo,        \* containers not looked at yet
  current,     \* the container whose request is under way
  pc,          \* where RunOnce is
  outcome      \* containerResult.Status, with the reason of a skip

runVars == <<fleet, todo, current, pc, outcome>>
vars    == <<passVars, runVars>>

\* "unselectable": the registry answered, yet no tag fits.  "unasked": skipped
\* before a registry was asked.  "unchecked": not looked at.
Verdicts == {"upToDate", "update", "unselectable"}
Outcomes == Verdicts \cup Failures \cup {"unasked", "unchecked"}

TypeOK ==
  /\ PassTypeOK
  /\ fleet \in [Containers -> Keys \cup {Nothing}]
  /\ todo \subseteq Containers
  /\ current \in Containers \cup {Nothing}
  /\ pc \in {"checking", "asking", "done", "aborted"}
  /\ outcome \in [Containers -> Outcomes]

\* ListRunning has succeeded and the excluded containers are filtered out.
Init ==
  /\ PassInit
  /\ fleet \in [Containers -> Keys \cup {Nothing}]
  /\ todo = Containers /\ current = Nothing
  /\ pc = "checking"
  /\ outcome = [c \in Containers |-> "unchecked"]

-----------------------------------------------------------------------------
\* The reference does not parse or has no tag, or its host has no registry.
SkipUnasked(c) ==
  /\ pc = "checking" /\ c \in todo /\ fleet[c] = Nothing
  /\ todo' = todo \ {c}
  /\ outcome' = [outcome EXCEPT ![c] = "unasked"]
  /\ UNCHANGED <<passVars, fleet, current, pc>>

\* Digest mode asks the provider first; its failure is a skip, even when the
\* whole pass has been cancelled.
LocalDigestFails(c) ==
  /\ pc = "checking" /\ c \in todo
  /\ fleet[c] # Nothing /\ fleet[c].op = "digest"
  /\ todo' = todo \ {c}
  /\ outcome' = [outcome EXCEPT ![c] = "unasked"]
  /\ UNCHANGED <<passVars, fleet, current, pc>>

\* The registry is asked for the tags, or for the digest once the local one is
\* known.
AskRegistry(c) ==
  /\ pc = "checking" /\ c \in todo
  /\ fleet[c] # Nothing /\ (fleet[c].op = "digest" => ~cancelled)
  /\ Ask(fleet[c])
  /\ todo' = todo \ {c} /\ current' = c /\ pc' = "asking"
  /\ UNCHANGED <<fleet, outcome>>

\* The answer is compared with what the container runs.
Conclude ==
  /\ pc = "asking" /\ answer = "ok"
  /\ Take
  /\ \E v \in Verdicts : outcome' = [outcome EXCEPT ![current] = v]
  /\ current' = Nothing /\ pc' = "checking"
  /\ UNCHANGED <<fleet, todo>>

\* Mutation of SkipFailed: a cancelled request is skipped like any other.
SkipFailedAlways ==
  /\ pc = "asking" /\ answer \in Failures
  /\ Take
  /\ outcome' = [outcome EXCEPT ![current] = answer]
  /\ current' = Nothing /\ pc' = "checking"
  /\ UNCHANGED <<fleet, todo>>

\* mapRegistryRequestError: with the pass alive every failure is a skip; the one
\* it does not know ("other") becomes one in RunOnce.
SkipFailed ==
  /\ pc = "asking" /\ answer \in Failures /\ ~cancelled
  /\ Take
  /\ outcome' = [outcome EXCEPT ![current] = answer]
  /\ current' = Nothing /\ pc' = "checking"
  /\ UNCHANGED <<fleet, todo>>

\* A failure of a cancelled pass ends it, with nothing found.
Abort ==
  /\ pc = "asking" /\ answer \in Failures /\ cancelled
  /\ Take
  /\ current' = Nothing /\ pc' = "aborted"
  /\ UNCHANGED <<fleet, todo, outcome>>

Finish ==
  /\ pc = "checking" /\ todo = {}
  /\ pc' = "done"
  /\ UNCHANGED <<passVars, fleet, todo, current, outcome>>

EngineStep ==
  \/ \E c \in Containers : SkipUnasked(c) \/ LocalDigestFails(c) \/ AskRegistry(c)
  \/ Conclude \/ SkipFailed \/ Abort \/ Finish

Ended == pc \in {"done", "aborted"}

Next ==
  \/ EngineStep
  \/ (CallReturns \/ SleepEnds \/ CutShort \/ Expire) /\ UNCHANGED runVars
  \/ ~Ended /\ Cancel /\ UNCHANGED runVars

\* Deadlines pass, timers fire and the goroutine goes on.  No registry has to
\* answer: a call may stay out until its deadline.
Fairness ==
  /\ WF_vars(EngineStep)
  /\ WF_vars(SleepEnds /\ UNCHANGED runVars)
  /\ WF_vars(Expire /\ UNCHANGED runVars)
  /\ WF_vars(CutShort /\ UNCHANGED runVars)

Spec == Init /\ [][Next]_vars /\ Fairness

-----------------------------------------------------------------------------
\* The registry is asked at most once in a pass for what several containers
\* need, however that request ended.
FetchedOncePerPass == \A k \in Keys : fetched[k] <= 1

\* Once its host is rate limited, no request of the pass calls a registry.
RateLimitedHostLeftAlone ==
  step \in {"calling", "sleeping"} => key.host \notin limited

\* Containers that need the same of the same registry are told the same, except
\* that a mark of the host can come between them.
TwinsAgree ==
  \A c, d \in Containers :
    LET told == {outcome[c], outcome[d]} IN
      /\ fleet[c] = fleet[d] /\ fleet[c] # Nothing
      /\ told \cap {"unchecked", "unasked", "rateLimited"} = {}
      => told \subseteq Verdicts \/ outcome[c] = outcome[d]

\* A container is skipped for its registry only when its own key failed or, for
\* a rate limit, a request to its own host did: no other host takes part.
SkipsComeFromOwnRegistry ==
  \A c \in Containers :
    /\ outcome[c] \in Failures \ {"rateLimited"} => fleet[c] \in troubled
    /\ outcome[c] = "rateLimited" => \E k \in troubled : k.host = fleet[c].host

\* A host is marked only when the request under way had a 429 from it twice or
\* with a Retry-After that is long or missing: a 5xx, a time-out or one short
\* 429 never takes the rest of the host's images out of the pass.
MarkIsEarned ==
  [][\A h \in limited' \ limited : key.host = h /\ strikes' = 2]_vars

\* Only a cancelled pass is given up: no registry failure ends it.
OnlyCancelAborts == pc = "aborted" => cancelled

\* A shutdown is never reported as a registry failure of a container.
CancelIsNoSkip ==
  [][cancelled => \A c \in Containers :
       outcome'[c] # outcome[c] => outcome'[c] \notin Failures]_vars

\* configuration.md and registries.md: one short Retry-After retry per request.
OneRetryAfterPerRequest == waits <= 1

\* What a pass amounts to for App.runPass: the contract of RunOnce.
Contract == INSTANCE PassContract WITH
  looked  <- {c \in Containers : outcome[c] # "unchecked"},
  updates <- {c \in Containers : outcome[c] = "update"},
  result  <- CASE pc = "done" -> "found" [] pc = "aborted" -> "error" [] OTHER -> "pending"

\* RunOnce keeps the contract Daemon is built on: caches, marks, retries and
\* deadlines decide what each container is found to be, never whether it is
\* decided, and nothing but a cancel loses the updates found so far.
PassKeepsContract == Contract!Spec

\* The pass ends, whatever registries answer and even if they never do, and it
\* ends with every container looked at unless it was cancelled.
PassEnds == <>(pc = "done" \/ (pc = "aborted" /\ cancelled))
=============================================================================
