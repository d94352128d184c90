------------------------------ MODULE Delivery ------------------------------
(***************************************************************************)
(* One call of Notify on a notifier that posts over HTTP (telegram,        *)
(* discord, webhook, gotify, ntfy; all five have this shape): the batch is *)
(* cut into sendBatch calls, each sendBatch into bodies, and each body is  *)
(* posted by httpretry.Do, which sleeps and tries again while the failure  *)
(* is one it calls retryable.                                              *)
(*                                                                         *)
(* Events are numbered in the order of the batch.  Only Discord may need   *)
(* several bodies for one sendBatch; a body then holds a run of events, and *)
(* where it ends is chosen when its turn comes.  A service may take a      *)
(* message and still fail to say so.                                       *)
(***************************************************************************)
EXTENDS Naturals

CONSTANTS
  Batch,          \* length of the batch; notifyAll never passes an empty one
  Retries         \* `retries` of the notifier; validateRetries takes 0 and more

ASSUME DeliveryAssumption ==
  /\ Batch \in Nat \ {0}
  /\ Retries \in Nat

Events == 1..Batch

\* maxAttemptsFromRetries: the first attempt is one of the retries, and is made
\* even if there are none.
MaxAttempts == IF Retries <= 1 THEN 1 ELSE Retries

VARIABLES
  mode,        \* the configured mode of the notifier
  pc,          \* where Notify is
  first,       \* the first event that is not settled
  last,        \* the last event of the body at hand
  try,         \* attempts of httpretry.Do for this body, the current one included
  result,      \* what Notify returned
  cancelled,   \* the context of the daemon is done
  received,    \* history: how often the service took an event (2: or more)
  settled,     \* history: events acknowledged, or with a blank body
  posts,       \* history: POSTs of the current body
  cause        \* history: why Notify failed

callVars    == <<mode, first, last, try>>
historyVars == <<received, settled, posts>>
vars        == <<callVars, pc, result, cancelled, historyVars, cause>>

Causes == {"none", "render", "cancel", "rejected", "timeout", "exhausted"}

TypeOK ==
  /\ mode \in {"simple", "digest"}
  /\ pc \in {"rendering", "trying", "posting", "sleeping", "returned"}
  /\ first \in 1..(Batch + 1)
  /\ last \in 0..Batch
  /\ try \in 1..MaxAttempts
  /\ result \in {"pending", "nil", "error"}
  /\ cancelled \in BOOLEAN
  /\ received \in [Events -> 0..2]
  /\ settled \subseteq Events
  /\ posts \in 0..MaxAttempts
  /\ cause \in Causes

Init ==
  /\ mode \in {"simple", "digest"}
  /\ pc = "rendering" /\ first = 1 /\ last = 0 /\ try = 1
  /\ result = "pending" /\ cancelled = FALSE
  /\ received = [e \in Events |-> 0] /\ settled = {} /\ posts = 0
  /\ cause = "none"

-----------------------------------------------------------------------------
\* The last event of the sendBatch, and the events of the body being posted.
SliceEnd == IF mode = "digest" THEN Batch ELSE first
Body     == first..last

\* Mutation of Fail: the loop over the bodies or events goes on.
FailAndGoOn(why) ==
  /\ cause' = why
  /\ IF SliceEnd < Batch
     THEN pc' = "rendering" /\ first' = first + 1 /\ UNCHANGED result
     ELSE pc' = "returned" /\ result' = "error" /\ UNCHANGED first
  /\ UNCHANGED <<mode, last, try>>

\* Mutation of Fail: the error of the last attempt is lost.
FailForgotten(why) ==
  /\ pc' = "returned" /\ result' = "nil" /\ cause' = why
  /\ UNCHANGED callVars

\* The first error ends Notify.
Fail(why) ==
  /\ pc' = "returned" /\ result' = "error" /\ cause' = why
  /\ UNCHANGED callVars

\* The events up to `done` are settled: next body, next sendBatch, or return nil.
Proceed(done) ==
  /\ first' = done + 1 /\ try' = 1
  /\ \/ /\ done < SliceEnd
        /\ pc' = "trying" /\ last' \in (done + 1)..SliceEnd /\ UNCHANGED result
     \/ /\ done = SliceEnd /\ done < Batch
        /\ pc' = "rendering" /\ last' = done /\ UNCHANGED result
     \/ /\ done = Batch
        /\ pc' = "returned" /\ last' = done /\ result' = "nil"

\* The bodies of this sendBatch are rendered.
Render ==
  /\ pc = "rendering"
  /\ last' \in first..SliceEnd
  /\ pc' = "trying" /\ try' = 1 /\ posts' = 0
  /\ UNCHANGED <<mode, first, result, cancelled, received, settled, cause>>

\* A template that renders to white space: there is nothing to post.
RenderBlank ==
  /\ pc = "rendering"
  /\ Proceed(SliceEnd)
  /\ settled' = settled \cup (first..SliceEnd)
  /\ UNCHANGED <<mode, cancelled, received, posts, cause>>

RenderFails ==
  /\ pc = "rendering"
  /\ Fail("render")
  /\ UNCHANGED <<cancelled, historyVars>>

-----------------------------------------------------------------------------
(* httpretry.Do and the classifiers.                                       *)

Post ==
  /\ pc = "trying" /\ ~cancelled
  /\ pc' = "posting" /\ posts' = posts + 1
  /\ UNCHANGED <<callVars, result, cancelled, received, settled, cause>>

Receive(events) ==
  received' = [e \in Events |->
    IF e \in events /\ received[e] < 2 THEN received[e] + 1 ELSE received[e]]

\* The service may have taken the message of a POST that did not succeed.
PerhapsReceived == Receive(Body) \/ UNCHANGED received

\* 2xx; Telegram also wants "ok" in the reply.
Accepted ==
  /\ pc = "posting"
  /\ Receive(Body)
  /\ settled' = settled \cup Body
  /\ Proceed(last)
  /\ posts' = 0
  /\ UNCHANGED <<mode, cancelled, cause>>

\* 4xx, 429 for more than 60 seconds, a reply Telegram's classifier cannot read.
Rejected ==
  /\ pc = "posting"
  /\ PerhapsReceived
  /\ Fail("rejected")
  /\ UNCHANGED <<cancelled, settled, posts>>

\* The client's timeout is an error that matches context.DeadlineExceeded, so it
\* counts as the end of the context.
TimesOut ==
  /\ pc = "posting"
  /\ PerhapsReceived
  /\ Fail("timeout")
  /\ UNCHANGED <<cancelled, settled, posts>>

\* The request ends with its context.
Interrupted ==
  /\ pc = "posting" /\ cancelled
  /\ PerhapsReceived
  /\ Fail("cancel")
  /\ UNCHANGED <<cancelled, settled, posts>>

\* Mutation of Troubled: one attempt less than configured.
TroubledTooEarly ==
  /\ pc = "posting"
  /\ PerhapsReceived
  /\ IF try + 1 >= MaxAttempts
     THEN Fail("exhausted")
     ELSE pc' = "sleeping" /\ UNCHANGED <<callVars, result, cause>>
  /\ UNCHANGED <<cancelled, settled, posts>>

\* 5xx, a network error or a 429 of at most 60 seconds: wait, unless this was
\* the last attempt.
Troubled ==
  /\ pc = "posting"
  /\ PerhapsReceived
  /\ IF try = MaxAttempts
     THEN Fail("exhausted")
     ELSE pc' = "sleeping" /\ UNCHANGED <<callVars, result, cause>>
  /\ UNCHANGED <<cancelled, settled, posts>>

\* Mutation of SleepEnds: the attempt is not counted.
SleepEndsUncounted ==
  /\ pc = "sleeping"
  /\ pc' = "trying"
  /\ posts' = 0
  /\ UNCHANGED <<callVars, result, cancelled, received, settled, cause>>

\* Mutation of SleepEnds: the whole batch is sent again.
SleepEndsRestarting ==
  /\ pc = "sleeping"
  /\ pc' = "rendering" /\ first' = 1 /\ last' = 0 /\ try' = try + 1
  /\ UNCHANGED <<mode, result, cancelled, historyVars, cause>>

\* The timer fires; with the context done as well, either may be taken.
SleepEnds ==
  /\ pc = "sleeping"
  /\ pc' = "trying" /\ try' = try + 1
  /\ UNCHANGED <<mode, first, last, result, cancelled, historyVars, cause>>

\* The context ends the sleep, or is found done before the next attempt.
GiveUp ==
  /\ pc \in {"trying", "sleeping"} /\ cancelled
  /\ Fail("cancel")
  /\ UNCHANGED <<cancelled, historyVars>>

\* SIGINT or SIGTERM.
Cancel ==
  /\ ~cancelled /\ pc # "returned"
  /\ cancelled' = TRUE
  /\ UNCHANGED <<callVars, pc, result, historyVars, cause>>

-----------------------------------------------------------------------------
Reply == Accepted \/ Rejected \/ TimesOut \/ Interrupted \/ Troubled

CallStep ==
  \/ Render \/ RenderBlank \/ RenderFails
  \/ Post \/ Reply \/ SleepEnds \/ GiveUp

Next == CallStep \/ Cancel

\* Every attempt has a timeout and every sleep a timer.
Spec == Init /\ [][Next]_vars /\ WF_vars(CallStep)

-----------------------------------------------------------------------------
\* What a service has acknowledged is never posted again in this call.
AcknowledgedOnce ==
  [][\A e \in settled : received'[e] = received[e]]_vars

\* Messages leave in the order of the batch and the first failure is the last
\* message: whatever reached the service, everything before it was settled or
\* went out in the same body.
FailureStopsBatch ==
  \A e \in Events : received[e] > 0 =>
    \A d \in 1..e : d \in settled \/ received[d] = received[e]

\* A retryable failure is final only after exactly `retries` attempts of that
\* body, or one when there are none, however failures, bodies and events are mixed.
RetriesSpentExactly ==
  cause = "exhausted" => posts = IF Retries = 0 THEN 1 ELSE Retries

\* No attempt begins once the daemon is told to stop.
NoPostOnceCancelled ==
  [][cancelled /\ pc # "posting" => pc' # "posting"]_vars

\* Notify returns, even if the service never answers.
NotifyReturns == <>(pc = "returned")

Contract == INSTANCE NotifyContract

\* The call keeps the contract notifyAll relies on.
ContractKept == Contract!Spec

\* notifications.md: network errors are retried, up to `retries` attempts.  A
\* time-out of the client is one.
TimeoutsAreRetried ==
  cause = "timeout" => posts = MaxAttempts
=============================================================================
