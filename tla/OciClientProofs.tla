--------------------------- MODULE OciClientProofs ---------------------------
(***************************************************************************)
(* Theorems about OciClient: the pass with the real client under it        *)
(* implements CheckRun, for any registries, tries and time-outs, so every  *)
(* safety theorem of CheckRunProofs holds of it; and answers are whole.    *)
(***************************************************************************)
EXTENDS OciClient, CheckRunProofs, WellFoundedInduction

\* A step of the client by its action, with what it does to the pass.
LEMMA ClientStepCases ==
  ASSUME [ClientNext]_clientVars
  PROVE  \/ EngineStep
         \/ CallsAgain
         \/ Attempt
         \/ DeadlinePasses
         \/ GivenUp
         \/ \E h \in Hosts : FallsSilent(h) \/ IdleCloses(h)
         \/ ~Ended /\ Cancel /\ UNCHANGED runVars
         \/ UNCHANGED clientVars
  BY DEF ClientNext, ClientEngineStep, ClientAsks, EngineStep

\* What an attempt does to the pass: nothing, or one of its returns.
LEMMA AttemptCases ==
  ASSUME Attempt
  PROVE  /\ UNCHANGED runVars
         /\ \/ UNCHANGED passVars
            \/ CallSucceeds /\ pending' = FALSE
            \/ CallFails \/ RefusedShortly \/ RefusedForGood \/ CallFindsServerError
  <1> USE DEF vars
  <1>1. CASE BeginTrip \/ GotConn \/ PauseEnds \/ HeadersArrive \/ PartRead
    BY <1>1 DEF BeginTrip, GotConn, PauseEnds, HeadersArrive, PartRead
  <1>2. CASE DialStuck \/ HeadersTimeOut \/ ConnectionBreaks
    BY <1>2 DEF DialStuck, HeadersTimeOut, ConnectionBreaks, RetryOr, FailsWith
  <1>3. CASE DialRefused \/ Refusal \/ BadBody
    BY <1>3 DEF DialRefused, Refusal, BadBody, FailsWith
  <1>4. CASE TooManyRequests
    BY <1>4 DEF TooManyRequests
  <1>5. CASE ServerError
    BY <1>5 DEF ServerError, RetryOr
  <1>6. CASE LastRead
    BY <1>6 DEF LastRead
  <1> QED BY <1>1, <1>2, <1>3, <1>4, <1>5, <1>6 DEF Attempt

LEMMA ClientStep ==
  ASSUME [ClientNext]_clientVars
  PROVE  [Next]_vars
  <1>1. CASE EngineStep
    BY <1>1 DEF Next
  <1>2. CASE CallsAgain
    BY <1>2 DEF CallsAgain, Next
  <1>3. CASE Attempt
    BY <1>3, AttemptCases DEF Next, CallReturns, vars
  <1>4. CASE DeadlinePasses
    BY <1>4 DEF DeadlinePasses, Next
  <1>5. CASE GivenUp
    BY <1>5 DEF GivenUp, Next
  <1>6. CASE \E h \in Hosts : FallsSilent(h) \/ IdleCloses(h)
    BY <1>6 DEF FallsSilent, IdleCloses
  <1>7. CASE ~Ended /\ Cancel /\ UNCHANGED runVars
    BY <1>7 DEF Next
  <1>8. CASE UNCHANGED clientVars
    BY <1>8 DEF clientVars
  <1> QED BY <1>1, <1>2, <1>3, <1>4, <1>5, <1>6, <1>7, <1>8, ClientStepCases

-----------------------------------------------------------------------------
\* The client under the pass takes no step CheckRun does not know: its pings,
\* pages, tries and connections are stutters of it, and whatever they come to is
\* one of the returns of RegistryPass.
THEOREM ClientImplementsCheckRun == ClientSpec => RefinesCheckRun
  <1>1. ClientInit => Init
    BY DEF ClientInit
  <1> QED BY <1>1, ClientStep, PTL DEF ClientSpec, RefinesCheckRun

\* The pass above the client keeps the invariant of CheckRun.
LEMMA PassInvariant == ClientSpec => []IInv
  BY InvStep, InitInv, ClientImplementsCheckRun, PTL DEF RefinesCheckRun

\* What a pass promises of caches, marks and skips it promises over the real
\* client too: no page, retry or broken connection gets in between.
THEOREM ClientKeepsPromises ==
  ClientSpec => /\ [](/\ FetchedOncePerPass /\ RateLimitedHostLeftAlone
                      /\ TwinsAgree /\ SkipsComeFromOwnRegistry /\ OnlyCancelAborts)
                /\ MarkIsEarned /\ CancelIsNoSkip
  <1> DEFINE Promises == /\ FetchedOncePerPass /\ RateLimitedHostLeftAlone
                         /\ TwinsAgree /\ SkipsComeFromOwnRegistry /\ OnlyCancelAborts
  <1>1. IInv => Promises
    BY InvAsksOnce, InvLimited, InvTwins, InvLocal, InvAborts
  <1> HIDE DEF Promises
  <1>2. ClientSpec => []Promises
    BY <1>1, PassInvariant, PTL
  <1>3. ClientSpec => MarkIsEarned
    BY StepEarns, PassInvariant, ClientImplementsCheckRun, PTL DEF RefinesCheckRun, MarkIsEarned
  <1>4. ClientSpec => CancelIsNoSkip
    BY StepCancels, PassInvariant, ClientImplementsCheckRun, PTL
       DEF RefinesCheckRun, CancelIsNoSkip
  <1> QED BY <1>2, <1>3, <1>4 DEF Promises

\* The pass over the real client keeps the contract of RunOnce.
THEOREM ClientKeepsContract == ClientSpec => PassKeepsContract
  BY ContractInit, ContractStep, PassInvariant, ClientImplementsCheckRun, PTL
     DEF RefinesCheckRun, PassKeepsContract, Contract!Spec, Looked, Updates, Reported

\* A call answers a tag list or a digest only after reading all of it: a page
\* that fails, a broken body and a retry all fail the call.
THEOREM AnswersWhole == ClientSpec => AnswersAreWhole
  <1>1. ASSUME IInv, [ClientNext]_clientVars
        PROVE  [step = "calling" /\ answer' = "ok" => ~pending']_clientVars
    <2> SUFFICES ASSUME step = "calling", answer' = "ok" PROVE ~pending'
      OBVIOUS
    <2>1. answer # "ok" /\ pc = "asking"
      BY <1>1, ResultNames DEF IInv, Progress
    <2>2. CASE EngineStep
      <3>1. pc # "checking" /\ step # "answered" /\ step # "idle"
        BY <2>1
      <3> QED BY <2>2, <3>1 DEF EngineStep, SkipUnasked, LocalDigestFails, AskRegistry,
             Conclude, SkipFailed, Abort, Finish, Take
    <2>3. CASE Attempt
      BY <2>1, <2>3, AttemptCases DEF CallFails, RefusedShortly, RefusedForGood,
         CallFindsServerError, Return, SleepBefore, passVars, requestVars
    <2>4. CASE CallsAgain \/ DeadlinePasses
      BY <2>1, <2>4 DEF CallsAgain, SleepEnds, DeadlinePasses, Expire
    <2>5. CASE GivenUp
      BY <2>5 DEF GivenUp, CutShort, Return
    <2>6. CASE \E h \in Hosts : FallsSilent(h) \/ IdleCloses(h)
      BY <2>1, <2>6 DEF FallsSilent, IdleCloses, vars, passVars, requestVars
    <2>7. CASE Cancel
      BY <2>1, <2>7 DEF Cancel, requestVars
    <2>8. CASE UNCHANGED clientVars
      BY <2>1, <2>8 DEF clientVars, vars, passVars, requestVars
    <2> QED BY <1>1, <2>2, <2>3, <2>4, <2>5, <2>6, <2>7, <2>8, ClientStepCases
  <1> QED BY <1>1, PassInvariant, PTL DEF ClientSpec, AnswersAreWhole

-----------------------------------------------------------------------------
(* Types of the client.                                                    *)

\* A pause comes after a first try.
Paused == trip = "pausing" => attempt > 1

ConnTypes == [Hosts -> {"none", "live", "silent"}]

LEMMA ConnStep ==
  ASSUME conn \in ConnTypes, NEW h, NEW x \in {"none", "live", "silent"}
  PROVE  [conn EXCEPT ![h] = x] \in ConnTypes
  BY DEF ConnTypes

LEMMA ElapseType ==
  ASSUME spent \in 0..Deadline, NEW seconds \in Nat, Elapse(seconds)
  PROVE  spent' \in 0..Deadline
  BY ClientAssumption DEF Elapse

LEMMA PauseType ==
  ASSUME NEW i \in 1..Attempts, i > 1
  PROVE  i - 1 \in 1..Attempts - 1 /\ Backoff[i - 1] \in Nat
  <1>1. i - 1 \in 1..Attempts - 1
    BY ClientAssumption
  <1> QED BY <1>1, ClientAssumption

LEMMA ClientTypeStep ==
  ASSUME ClientTypeOK, Paused, TypeOK', [ClientNext]_clientVars
  PROVE  ClientTypeOK' /\ Paused'
  <1> USE DEF ClientTypeOK, Paused, callVars, clockVars
  <1> DEFINE Tries == attempt' \in 1..Attempts /\ (trip' = "pausing" => attempt' > 1)
             Trips == trip' \in {"ready", "dialing", "waiting", "reading", "pausing"}
             Pages == page' \in 0..MaxPages /\ pending' \in BOOLEAN
             Clock == spent' \in 0..Deadline /\ stuck' \in Nat /\ upset' \in BOOLEAN
             Conns == conn' \in ConnTypes
             Typed == Tries /\ Trips /\ Pages /\ Clock /\ Conns
  <1>s. SUFFICES Typed
    BY DEF ConnTypes
  <1>c. conn \in ConnTypes
    BY DEF ConnTypes
  <1>d. 0 \in 0..Deadline /\ 1 \in 1..Attempts /\ 0 \in 0..MaxPages
    BY ClientAssumption
  <1>u. Upset => Clock
    BY <1>d DEF Upset
  <1>w. \A h : Without(h) \in ConnTypes
    BY <1>c, ConnStep DEF Without
  <1>e. Evicted \in ConnTypes
    BY <1>c, <1>w DEF Evicted
  <1>r. ASSUME NEW ACTION A, RetryOr(A) PROVE Tries /\ Trips /\ page' \in 0..MaxPages
    BY <1>r, <1>d, ClientAssumption DEF RetryOr, EndCall
  <1>1. CASE UNCHANGED <<conn, callVars, clockVars>>
    BY <1>1, <1>c
  <1>2. ASSUME NEW c \in Containers, ClientAsks(c) PROVE Typed
    BY <1>2, <1>c, <1>d DEF ClientAsks, StartCall
  <1>3. CASE CallsAgain
    BY <1>3, <1>c, <1>d DEF CallsAgain, StartCall
  <1>4. CASE BeginTrip \/ HeadersArrive
    BY <1>4, <1>c DEF BeginTrip, HeadersArrive
  <1>5. CASE GotConn
    BY <1>5, <1>c, ConnStep DEF GotConn
  <1>6. CASE DialStuck
    <2>1. Clock
      BY <1>6, ElapseType, ClientAssumption DEF DialStuck
    <2>2. Tries /\ Trips /\ page' \in 0..MaxPages
      BY <1>6, <1>r DEF DialStuck
    <2> QED BY <1>6, <2>1, <2>2, <1>c DEF DialStuck
  <1>7. CASE DialRefused
    BY <1>7, <1>c, <1>d, <1>u DEF DialRefused, EndCall
  <1>8. CASE PauseEnds
    BY <1>8, <1>c, ElapseType, PauseType DEF PauseEnds
  <1>9. CASE HeadersTimeOut
    <2>1. Clock
      BY <1>9, <1>u, ElapseType, ClientAssumption DEF HeadersTimeOut
    <2>2. Tries /\ Trips /\ page' \in 0..MaxPages
      BY <1>9, <1>r DEF HeadersTimeOut
    <2> QED BY <1>9, <2>1, <2>2, <1>e DEF HeadersTimeOut
  <1>10. CASE ConnectionBreaks
    <2>1. Tries /\ Trips /\ page' \in 0..MaxPages
      BY <1>10, <1>r, <1>d DEF ConnectionBreaks, EndCall
    <2> QED BY <1>10, <2>1, <1>u, <1>w DEF ConnectionBreaks
  <1>11. CASE TooManyRequests \/ Refusal \/ BadBody
    BY <1>11, <1>c, <1>d, <1>u DEF TooManyRequests, Refusal, BadBody, EndCall
  <1>12. CASE ServerError
    <2>1. Tries /\ Trips /\ page' \in 0..MaxPages
      BY <1>12, <1>r, <1>d DEF ServerError, EndCall
    <2> QED BY <1>12, <2>1, <1>u, <1>c DEF ServerError
  <1>13. CASE PartRead
    BY <1>13, <1>c, <1>d, ClientAssumption DEF PartRead
  <1>14. CASE LastRead
    BY <1>14, <1>c, <1>d DEF LastRead, EndCall
  <1>15. CASE DeadlinePasses
    BY <1>15, <1>c, <1>u DEF DeadlinePasses
  <1>16. CASE GivenUp
    BY <1>16, <1>c, <1>d, <1>w DEF GivenUp, EndCall
  <1>17. ASSUME NEW h \in Hosts, FallsSilent(h) PROVE Typed
    <2>1. Conns
      BY <1>17, <1>c, ConnStep DEF FallsSilent
    <2>2. Clock
      BY <1>17, <1>u DEF FallsSilent
    <2> QED BY <1>17, <2>1, <2>2 DEF FallsSilent
  <1>18. ASSUME NEW h \in Hosts, IdleCloses(h) PROVE Typed
    BY <1>18, <1>w DEF IdleCloses
  <1> HIDE DEF Typed
  <1>19. CASE Attempt
    BY <1>4, <1>5, <1>6, <1>7, <1>8, <1>9, <1>10, <1>11, <1>12, <1>13, <1>14, <1>19 DEF Attempt
  <1>20. CASE ClientEngineStep
    BY <1>1, <1>2, <1>20 DEF ClientEngineStep
  <1>21. CASE UNCHANGED clientVars
    BY <1>1, <1>21 DEF clientVars
  <1> QED BY <1>1, <1>3, <1>15, <1>16, <1>17, <1>18, <1>19, <1>20, <1>21 DEF ClientNext

\* The variables of the client keep their types, its clock the deadline.
THEOREM ClientTypeCorrect == ClientSpec => [](ClientTypeOK /\ Paused)
  <1>1. ASSUME ClientInit PROVE ClientTypeOK /\ Paused
    <2>1. 0 \in 0..Deadline /\ 1 \in 1..Attempts /\ 0 \in 0..MaxPages
      BY ClientAssumption
    <2>2. TypeOK
      BY <1>1, InitInv DEF ClientInit, IInv
    <2>3. conn \in [Hosts -> {"none", "live", "silent"}]
      BY <1>1 DEF ClientInit
    <2> QED BY <1>1, <2>1, <2>2, <2>3 DEF ClientInit, ClientTypeOK, Paused
  <1>2. IInv' => TypeOK'
    BY DEF IInv
  <1> QED BY <1>1, <1>2, ClientTypeStep, PassInvariant, PTL DEF ClientSpec

-----------------------------------------------------------------------------
(* Stuck sockets against the deadline.                                     *)

\* Stuck sockets the request has already got rid of.
Lost == stuck - (IF conn[key.host] = "silent" THEN 1 ELSE 0)

\* What the pause before the next try will take.
PauseAhead == IF trip = "pausing" THEN Backoff[attempt - 1] ELSE 0

\* As long as stuck sockets are all that went wrong, each of them has cost at
\* most one try, with the time and the pause of one; and the deadline has only
\* passed when there were as many as tries.
SocketsCounted ==
  /\ step = "sleeping" => upset
  /\ step = "calling" /\ ~upset /\ ~cancelled =>
       IF expired THEN stuck >= Attempts
       ELSE attempt - 1 <= Lost /\ spent + PauseAhead <= Lost * TryTime

\* One more stuck socket makes room for one more try.
LEMMA TryFits ==
  ASSUME NEW k \in Nat
  PROVE  /\ k * TryTime \in Nat
         /\ (k + 1) * TryTime = k * TryTime + TryTime
  BY BudgetAssumption

LEMMA MoreRoom ==
  ASSUME NEW j \in Nat, NEW k \in Nat, j <= k
  PROVE  j * TryTime <= k * TryTime
  <1>1. PICK d \in Nat : k = j + d
    <2>1. k - j \in Nat /\ k = j + (k - j)
      OBVIOUS
    <2> QED BY <2>1
  <1>2. (j + d) * TryTime = j * TryTime + d * TryTime
    BY BudgetAssumption
  <1>3. j * TryTime \in Nat /\ d * TryTime \in Nat
    BY BudgetAssumption
  <1> QED BY <1>1, <1>2, <1>3

LEMMA DeadlineFits ==
  ASSUME NEW k \in Nat, k < Attempts
  PROVE  k * TryTime <= Deadline
  <1>1. Attempts - 1 \in Nat /\ k <= Attempts - 1
    BY ClientAssumption
  <1>2. k * TryTime <= (Attempts - 1) * TryTime
    BY <1>1, MoreRoom
  <1>3. (Attempts - 1) * TryTime \in Nat /\ k * TryTime \in Nat
    BY <1>1, TryFits
  <1>4. (Attempts - 1) * TryTime <= Deadline /\ Deadline \in Nat
    BY BudgetAssumption, ClientAssumption
  <1> DEFINE a == k * TryTime
             b == (Attempts - 1) * TryTime
  <1>5. a \in Nat /\ b \in Nat /\ a <= b /\ b <= Deadline /\ Deadline \in Nat
    BY <1>2, <1>3, <1>4
  <1>6. a <= Deadline
    <2> HIDE DEF a, b
    <2> QED BY <1>5
  <1> QED BY <1>6

\* A step keeps the count, and no call fails for fewer stuck sockets than tries.
LEMMA StuckStep ==
  ASSUME ClientTypeOK, Paused, Progress, SocketsCounted, ClientTypeOK', Paused',
         [ClientNext]_clientVars
  PROVE  /\ SocketsCounted'
         /\ step = "calling" /\ step' = "answered" /\ answer' # "ok" /\ ~upset' /\ ~cancelled
              => stuck' >= Attempts
  <1> DEFINE Survived == step = "calling" /\ step' = "answered" /\ answer' # "ok"
                           /\ ~upset' /\ ~cancelled => stuck' >= Attempts
             Kept == SocketsCounted' /\ Survived
             Calm == step = "calling" /\ ~upset /\ ~cancelled
  <1>s. SUFFICES Kept
    OBVIOUS
  <1>t. attempt \in 1..Attempts /\ stuck \in Nat /\ spent \in Nat /\ Attempts \in Nat \ {0}
    BY ClientAssumption DEF ClientTypeOK
  <1>k. step = "calling" => key.host \in Hosts
    BY DEF Progress, Keys
  <1>h. conn \in ConnTypes
    BY DEF ClientTypeOK, ConnTypes
  <1>p. PauseAhead \in Nat
    BY <1>t, PauseType DEF PauseAhead, Paused
  <1>p2. PauseAhead' \in Nat
    <2>1. attempt' \in 1..Attempts /\ (trip' = "pausing" => attempt' > 1)
      BY DEF ClientTypeOK, Paused
    <2>2. trip' = "pausing" => Backoff[attempt' - 1] \in Nat
      BY <2>1, PauseType
    <2> QED BY <2>2 DEF PauseAhead
  <1>l. Calm /\ ~expired => Lost \in Nat /\ stuck <= Lost + 1 /\ Lost <= stuck
    BY <1>t DEF SocketsCounted, Lost
  <1> HIDE DEF Calm
  \* Steps that end the call or leave it upset, and steps it does not notice.
  <1>1. ASSUME upset', step' = "answered" \/ step' = "sleeping" \/ UNCHANGED step PROVE Kept
    BY <1>1 DEF SocketsCounted
  <1>2. ASSUME UNCHANGED <<step, key, answer, expired, cancelled, conn, trip, attempt, clockVars>>
        PROVE  Kept
    BY <1>2 DEF SocketsCounted, Lost, PauseAhead, clockVars
  <1>3. ASSUME ~Calm, step' = "answered" PROVE SocketsCounted'
    BY <1>3 DEF SocketsCounted
  \* The pass.
  <1>4. ASSUME NEW c \in Containers, ClientAsks(c) PROVE Kept
    <2>1. step # "calling"
      BY <1>4 DEF ClientAsks, AskRegistry, Ask
    <2>2. CASE step' = "answered"
      BY <2>1, <2>2 DEF SocketsCounted
    <2>3. CASE step' = "calling"
      <3>1. attempt' = 1 /\ trip' = "ready" /\ spent' = 0 /\ ~expired' /\ key' = fleet[c]
        BY <1>4 DEF ClientAsks, StartCall, AskRegistry, Ask
      <3>2. Lost' = 0
        BY <1>4, <3>1 DEF ClientAsks, Lost
      <3>3. PauseAhead' = 0
        BY <3>1 DEF PauseAhead
      <3> QED BY <2>1, <2>3, <3>1, <3>2, <3>3, TryFits DEF SocketsCounted
    <2> QED BY <1>4, <2>2, <2>3 DEF ClientAsks, AskRegistry, Ask
  <1>5. CASE CallsAgain
    <2>1. upset
      BY <1>5 DEF CallsAgain, SleepEnds, SocketsCounted
    <2> QED BY <1>5, <2>1 DEF CallsAgain, SleepEnds, SocketsCounted, clockVars
  <1>6. ASSUME NEW c \in Containers, SkipUnasked(c) \/ LocalDigestFails(c),
               UNCHANGED <<conn, callVars, clockVars>>
        PROVE  Kept
    BY <1>6, <1>2 DEF SkipUnasked, LocalDigestFails, passVars, requestVars, callVars
  <1>7. ASSUME Conclude \/ SkipFailed \/ Abort PROVE Kept
    <2>1. step = "answered" /\ step' = "idle"
      BY <1>7 DEF Conclude, SkipFailed, Abort, Take
    <2> QED BY <2>1 DEF SocketsCounted
  <1>8. ASSUME Finish, UNCHANGED <<conn, callVars, clockVars>> PROVE Kept
    BY <1>8, <1>2 DEF Finish, passVars, requestVars, callVars
  <1>9. CASE GivenUp
    <2>1. step' = "answered" /\ (expired \/ cancelled) /\ UNCHANGED clockVars
      BY <1>9 DEF GivenUp, CutShort, Return, Done
    <2> QED BY <2>1 DEF SocketsCounted, clockVars
  \* The attempt.
  <1>10. CASE BeginTrip \/ HeadersArrive \/ PartRead
    <2>1. UNCHANGED <<step, key, answer, expired, cancelled, conn, clockVars>>
      BY <1>10 DEF BeginTrip, HeadersArrive, PartRead, vars, passVars, requestVars
    <2>2. trip' # "pausing" /\ (attempt' = attempt \/ attempt' = 1)
      BY <1>10 DEF BeginTrip, HeadersArrive, PartRead
    <2>3. Lost' = Lost /\ PauseAhead' = 0
      BY <2>1, <2>2 DEF Lost, PauseAhead, clockVars
    <2> QED BY <2>1, <2>2, <2>3, <1>t, <1>l, <1>p, TryFits DEF SocketsCounted, clockVars, Calm
  <1>11. CASE GotConn
    <2>1. UNCHANGED <<step, key, answer, expired, cancelled, attempt, clockVars>> /\ step = "calling"
      BY <1>11 DEF GotConn, vars, passVars, requestVars
    <2>2. trip' = "waiting" /\ conn'[key.host] = "live"
      BY <1>11, <1>k, <1>h, <2>1 DEF GotConn, ConnTypes
    <2>3. Lost' = stuck /\ PauseAhead' = 0
      BY <1>t, <2>1, <2>2 DEF Lost, PauseAhead, clockVars
    <2>4. CASE Calm /\ ~expired
      <3>1. Lost * TryTime <= stuck * TryTime
        BY <2>4, <1>l, <1>t, MoreRoom
      <3>2. Lost * TryTime \in Nat /\ stuck * TryTime \in Nat
        BY <2>4, <1>l, <1>t, TryFits
      <3> QED BY <2>1, <2>3, <2>4, <3>1, <3>2, <1>t, <1>l, <1>p DEF SocketsCounted, clockVars, Calm
    <2> QED BY <2>1, <2>3, <2>4 DEF SocketsCounted, clockVars, Calm
  <1>12. CASE PauseEnds
    <2>1. UNCHANGED <<step, key, answer, expired, cancelled, conn, attempt, stuck, upset>>
      BY <1>12 DEF PauseEnds, vars, passVars, requestVars
    <2>2. Lost' = Lost /\ PauseAhead' = 0
      BY <1>12, <2>1 DEF PauseEnds, Lost, PauseAhead
    <2>3. ~upset => spent' = spent + PauseAhead
      BY <1>12 DEF PauseEnds, Elapse, PauseAhead
    <2> QED BY <2>1, <2>2, <2>3, <1>t, <1>p DEF SocketsCounted, Calm
  <1>13. CASE DialRefused \/ TooManyRequests \/ Refusal \/ BadBody
    <2>1. upset'
      BY <1>13 DEF DialRefused, TooManyRequests, Refusal, BadBody, Upset
    <2>2. step' = "answered" \/ step' = "sleeping"
      BY <1>13 DEF DialRefused, TooManyRequests, Refusal, BadBody, FailsWith, CallFails,
         RefusedShortly, RefusedForGood, Return, SleepBefore
    <2> QED BY <2>1, <2>2, <1>1
  <1>14. CASE ConnectionBreaks \/ ServerError
    <2>1. upset'
      BY <1>14 DEF ConnectionBreaks, ServerError, Upset
    <2>2. step' = "answered" \/ step' = "sleeping" \/ UNCHANGED step
      BY <1>14 DEF ConnectionBreaks, ServerError, RetryOr, FailsWith, CallFails,
         CallFindsServerError, Return, SleepBefore, passVars, requestVars
    <2> QED BY <2>1, <2>2, <1>1
  <1>15. CASE LastRead
    <2>1. step' = "answered" /\ answer' = "ok"
      BY <1>15 DEF LastRead, CallSucceeds, Return
    <2> QED BY <2>1 DEF SocketsCounted
  <1>16. ASSUME NEW h \in Hosts, IdleCloses(h) PROVE Kept
    <2>1. UNCHANGED <<step, key, answer, expired, cancelled, trip, attempt, clockVars>>
      BY <1>16 DEF IdleCloses, vars, passVars, requestVars, callVars
    <2>2. conn' = [conn EXCEPT ![h] = "none"]
      BY <1>16 DEF IdleCloses, Without
    <2>3. CASE Calm /\ ~expired
      <3>1. key.host \in Hosts
        BY <1>k, <2>3 DEF Calm
      <3>2. conn'[key.host] = conn[key.host] \/ conn'[key.host] = "none"
        BY <2>2, <3>1, <1>h DEF ConnTypes
      <3>3. Lost' \in Nat /\ Lost <= Lost' /\ Lost \in Nat
        BY <2>1, <2>3, <3>2, <1>l, <1>t DEF Lost, clockVars
      <3>4. PauseAhead' = PauseAhead
        BY <2>1 DEF PauseAhead
      <3>5. Lost * TryTime \in Nat /\ Lost' * TryTime \in Nat /\ Lost * TryTime <= Lost' * TryTime
        BY <3>3, MoreRoom, TryFits
      <3> QED BY <2>1, <2>3, <3>3, <3>4, <3>5, <1>t, <1>p DEF SocketsCounted, clockVars, Calm
    <2> QED BY <2>1, <2>3 DEF SocketsCounted, clockVars, Calm
  <1>17. ASSUME NEW h \in Hosts, FallsSilent(h) PROVE Kept
    <2>1. UNCHANGED <<step, key, answer, expired, cancelled, trip, attempt>>
      BY <1>17 DEF FallsSilent, vars, passVars, requestVars, callVars
    <2>2. PauseAhead' = PauseAhead
      BY <2>1 DEF PauseAhead
    <2>3. CASE upset
      BY <1>17, <2>1, <2>3 DEF FallsSilent, SocketsCounted, clockVars
    <2>4. CASE upset'
      BY <1>1, <2>1, <2>4
    <2>5. CASE ~upset /\ step = "calling" /\ key.host # h
      <3>1. conn'[key.host] = conn[key.host]
        BY <1>17, <2>5 DEF FallsSilent
      <3>2. UNCHANGED clockVars
        BY <1>17, <2>5 DEF FallsSilent
      <3>3. Lost' = Lost
        BY <2>1, <3>1, <3>2 DEF Lost, clockVars
      <3> QED BY <2>1, <2>2, <3>2, <3>3 DEF SocketsCounted, clockVars
    <2>6. CASE step # "calling"
      BY <1>17, <2>1, <2>6 DEF FallsSilent, SocketsCounted, clockVars, Upset
    <2>7. CASE ~upset /\ ~upset' /\ step = "calling" /\ key.host = h
      <3>1. conn[key.host] = "live" /\ conn'[key.host] = "silent"
        BY <1>17, <2>7, <1>h DEF FallsSilent, ConnTypes
      <3>2. stuck' = stuck + 1 /\ UNCHANGED <<spent, upset>>
        BY <1>17, <2>7 DEF FallsSilent, Upset
      <3>3. Lost' = Lost
        BY <2>1, <3>1, <3>2, <1>t DEF Lost
      <3> QED BY <2>1, <2>2, <3>2, <3>3, <1>t DEF SocketsCounted
    <2> QED BY <2>3, <2>4, <2>5, <2>6, <2>7
  <1>18. CASE Cancel /\ UNCHANGED <<conn, callVars, clockVars>>
    BY <1>18 DEF Cancel, SocketsCounted, requestVars, clockVars
  <1>19. CASE UNCHANGED clientVars
    BY <1>19, <1>2 DEF clientVars, vars, passVars, requestVars, callVars
  \* A stuck socket costs a try: retried with one more lost, or the last.
  <1>20. ASSUME NEW seconds \in {DialTimeout, TlsTimeout, HeaderTimeout},
                Calm, ~expired, ~upset', spent' = spent + seconds, Lost' = Lost + 1,
                attempt < Attempts, attempt' = attempt + 1, trip' = "pausing", UNCHANGED passVars
         PROVE  Kept
    <2>1. Lost \in Nat /\ attempt - 1 <= Lost /\ spent + PauseAhead <= Lost * TryTime
      BY <1>20, <1>l DEF SocketsCounted, Calm
    <2>2. attempt \in 1..Attempts - 1 /\ attempt' - 1 = attempt
      BY <1>20, <1>t
    <2>3. seconds + Backoff[attempt] <= TryTime /\ seconds \in Nat /\ Backoff[attempt] \in Nat
      BY <2>2, BudgetAssumption, ClientAssumption
    <2>4. PauseAhead' = Backoff[attempt]
      BY <1>20, <2>2 DEF PauseAhead
    <2>5. Lost' * TryTime = Lost * TryTime + TryTime /\ Lost * TryTime \in Nat
      BY <1>20, <2>1, TryFits
    <2>6. spent' + PauseAhead' <= Lost' * TryTime
      <3> DEFINE room == Lost * TryTime
      <3>1. room \in Nat /\ Lost' * TryTime = room + TryTime /\ spent + PauseAhead <= room
        BY <2>1, <2>5
      <3> HIDE DEF room
      <3> QED BY <1>20, <2>3, <2>4, <3>1, <1>t, <1>p, BudgetAssumption
    <2>7. attempt' - 1 <= Lost'
      BY <1>20, <2>1, <1>t
    <2>8. UNCHANGED <<step, expired, cancelled>>
      BY <1>20 DEF passVars, requestVars
    <2> QED BY <1>20, <2>6, <2>7, <2>8 DEF SocketsCounted, Calm
  <1>21. CASE DialStuck
    <2>1. step = "calling" /\ UNCHANGED <<key, conn, upset, cancelled, expired>>
      BY <1>21 DEF DialStuck, RetryOr, FailsWith, CallFails, passVars, requestVars
    <2>2. ~upset => stuck' = stuck + 1
      BY <1>21 DEF DialStuck
    <2>3. ~upset => Lost' = Lost + 1
      BY <2>1, <2>2, <1>t DEF Lost
    <2>4. step' = step \/ step' = "answered"
      BY <1>21 DEF DialStuck, RetryOr, FailsWith, CallFails, Return, passVars, requestVars
    <2>5. CASE upset \/ cancelled \/ expired
      BY <2>1, <2>2, <2>4, <2>5, <1>t DEF SocketsCounted
    <2>6. CASE Calm /\ ~expired /\ attempt < Attempts
      <3>1. PICK seconds \in {DialTimeout, TlsTimeout} : Elapse(seconds)
        BY <1>21 DEF DialStuck
      <3>2. spent' = spent + seconds
        BY <2>6, <3>1 DEF Elapse, Calm
      <3>3. attempt' = attempt + 1 /\ trip' = "pausing" /\ UNCHANGED passVars
        BY <1>21, <2>6, <1>t DEF DialStuck, RetryOr
      <3> QED BY <1>20, <2>1, <2>3, <2>6, <3>2, <3>3 DEF Calm
    <2>7. CASE Calm /\ ~expired /\ attempt = Attempts
      <3>1. step' = "answered"
        BY <1>21, <2>7, <1>t DEF DialStuck, RetryOr, FailsWith, CallFails, Return
      <3>2. stuck' >= Attempts
        BY <2>2, <2>7, <1>l, <1>t DEF SocketsCounted, Calm
      <3> QED BY <3>1, <3>2 DEF SocketsCounted
    <2> QED BY <2>1, <2>5, <2>6, <2>7, <1>t DEF Calm
  <1>22. CASE HeadersTimeOut
    <2>1. step = "calling" /\ UNCHANGED <<key, cancelled, expired>>
      BY <1>22 DEF HeadersTimeOut, RetryOr, FailsWith, CallFails, passVars, requestVars
    <2>2. step' = step \/ step' = "answered"
      BY <1>22 DEF HeadersTimeOut, RetryOr, FailsWith, CallFails, Return, passVars, requestVars
    <2>3. CASE upset'
      BY <1>1, <2>2, <2>3
    <2>4. CASE ~upset'
      <3>1. conn[key.host] = "silent" /\ Elapse(HeaderTimeout) /\ UNCHANGED <<stuck, upset>>
        BY <1>22, <2>4 DEF HeadersTimeOut, Upset
      <3>2. CASE cancelled \/ expired
        BY <2>1, <2>2, <3>1, <3>2, <2>4 DEF SocketsCounted
      <3>3. CASE Calm /\ ~expired
        <4>1. key.host \in Hosts
          BY <1>k, <3>3 DEF Calm
        <4>2. conn' = Without(key.host)
          BY <1>22, <3>3 DEF HeadersTimeOut, Evicted, Done, Calm
        <4>3. conn'[key.host] = "none"
          BY <4>1, <4>2, <1>h DEF Without, ConnTypes
        <4>4. Lost' = Lost + 1 /\ Lost' = stuck
          BY <2>1, <3>1, <4>3, <1>t DEF Lost
        <4>5. CASE attempt < Attempts
          <5>1. spent' = spent + HeaderTimeout
            BY <3>1, <3>3 DEF Elapse, Calm
          <5>2. attempt' = attempt + 1 /\ trip' = "pausing" /\ UNCHANGED passVars
            BY <1>22, <4>5, <1>t DEF HeadersTimeOut, RetryOr
          <5> QED BY <1>20, <2>4, <3>3, <4>4, <4>5, <5>1, <5>2
        <4>6. CASE attempt = Attempts
          <5>1. step' = "answered"
            BY <1>22, <4>6, <1>t DEF HeadersTimeOut, RetryOr, FailsWith, CallFails, Return
          <5>2. stuck' >= Attempts
            BY <3>1, <3>3, <4>4, <4>6, <1>l, <1>t DEF SocketsCounted, Calm
          <5> QED BY <5>1, <5>2 DEF SocketsCounted
        <4> QED BY <4>5, <4>6, <1>t
      <3> QED BY <2>1, <2>4, <3>1, <3>2, <3>3 DEF Calm
    <2> QED BY <2>3, <2>4
  <1>23. CASE DeadlinePasses
    <2>1. expired' /\ ~expired /\ UNCHANGED <<step, key, answer, cancelled, conn, trip, attempt>>
      BY <1>23 DEF DeadlinePasses, Expire, callVars
    <2>2. CASE upset'
      BY <1>1, <2>1, <2>2
    <2>3. CASE ~upset'
      <3>1. /\ step = "calling" /\ ~upset /\ spent + Stall > Deadline
            /\ stuck' = (IF trip = "dialing" THEN stuck + 1 ELSE stuck)
        BY <1>23, <2>3 DEF DeadlinePasses, Upset
      <3>2. CASE cancelled
        BY <2>1, <3>1, <3>2 DEF SocketsCounted
      <3>3. CASE ~cancelled
        <4>1. Lost \in Nat /\ stuck <= Lost + 1 /\ Lost <= stuck /\ spent + PauseAhead <= Lost * TryTime
          BY <2>1, <3>1, <3>3, <1>l DEF SocketsCounted, Calm
        <4>2. Stall \in Nat /\ (Stall = PauseAhead \/ (stuck' >= Lost + 1 /\ Stall <= TryTime))
          <5>1. CASE trip = "dialing"
            BY <3>1, <4>1, <5>1, <1>t, BudgetAssumption, ClientAssumption DEF Stall
          <5>2. CASE trip = "waiting" /\ conn[key.host] = "silent"
            <6>1. stuck' = Lost + 1
              BY <3>1, <5>2, <1>t DEF Lost
            <6> QED BY <4>1, <5>2, <6>1, BudgetAssumption, ClientAssumption DEF Stall
          <5>3. CASE trip = "pausing"
            BY <5>3, <1>p DEF Stall, PauseAhead
          <5>4. CASE trip # "dialing" /\ trip # "pausing" /\ ~(trip = "waiting" /\ conn[key.host] = "silent")
            BY <5>4 DEF Stall, PauseAhead
          <5> QED BY <5>1, <5>2, <5>3, <5>4
        <4>3. stuck' \in Nat /\ stuck' >= Lost
          BY <3>1, <4>1, <1>t
        <4>4. ASSUME stuck' < Attempts PROVE FALSE
          <5>1. stuck' * TryTime <= Deadline /\ stuck' * TryTime \in Nat
            BY <4>3, <4>4, DeadlineFits, TryFits
          <5>2. Lost * TryTime <= stuck' * TryTime /\ Lost * TryTime \in Nat
            BY <4>1, <4>3, MoreRoom, TryFits
          <5>3. CASE Stall = PauseAhead
            BY <3>1, <4>1, <5>1, <5>2, <5>3, <1>t, <1>p, ClientAssumption
          <5>4. CASE stuck' >= Lost + 1 /\ Stall <= TryTime
            <6>1. (Lost + 1) * TryTime = Lost * TryTime + TryTime /\ (Lost + 1) * TryTime <= stuck' * TryTime
              BY <4>1, <4>3, <5>4, TryFits, MoreRoom
            <6> DEFINE room == Lost * TryTime
                       more == (Lost + 1) * TryTime
                       most == stuck' * TryTime
            <6>2. /\ room \in Nat /\ spent + PauseAhead <= room /\ most \in Nat
                  /\ more = room + TryTime /\ more <= most /\ most <= Deadline
              BY <4>1, <5>1, <5>2, <6>1
            <6> HIDE DEF room, more, most
            <6> QED BY <3>1, <4>2, <5>4, <6>2, <1>t, <1>p, BudgetAssumption, ClientAssumption
          <5> QED BY <4>2, <5>3, <5>4
        <4> QED BY <2>1, <3>1, <4>3, <4>4, <1>t DEF SocketsCounted
      <3> QED BY <3>2, <3>3
    <2> QED BY <2>2, <2>3
  <1> HIDE DEF Kept
  <1>24. CASE Attempt
    BY <1>10, <1>11, <1>12, <1>13, <1>14, <1>15, <1>21, <1>22, <1>24 DEF Attempt
  <1>25. CASE ClientEngineStep
    <2>1. CASE \E c \in Containers : ClientAsks(c)
      BY <1>4, <2>1
    <2>2. CASE /\ \E c \in Containers : SkipUnasked(c) \/ LocalDigestFails(c)
               /\ UNCHANGED <<conn, callVars, clockVars>>
      BY <1>6, <2>2
    <2>3. CASE Conclude \/ SkipFailed \/ Abort
      BY <1>7, <2>3
    <2>4. CASE Finish /\ UNCHANGED <<conn, callVars, clockVars>>
      BY <1>8, <2>4
    <2> QED BY <1>25, <2>1, <2>2, <2>3, <2>4 DEF ClientEngineStep
  <1> QED BY <1>5, <1>9, <1>16, <1>17, <1>18, <1>19, <1>23, <1>24, <1>25 DEF ClientNext

\* A request fails for stuck sockets only when it met as many as it has tries,
\* for any numbers of tries and pauses whose time fits under the deadline.
THEOREM StuckSocketsSurvived == ClientSpec => StuckSocketsAreSurvived
  <1>1. ClientInit => SocketsCounted
    BY DEF ClientInit, Init, PassInit, SocketsCounted
  <1>2. IInv => Progress
    BY DEF IInv
  <1>3. ASSUME ClientTypeOK, Paused, Progress, SocketsCounted, ClientTypeOK', Paused',
               [ClientNext]_clientVars
        PROVE  /\ SocketsCounted'
               /\ [step = "calling" /\ step' = "answered" /\ answer' # "ok" /\ ~upset' /\ ~cancelled
                     => stuck' >= Attempts]_clientVars
    BY <1>3, StuckStep
  <1> QED BY <1>1, <1>2, <1>3, ClientTypeCorrect, PassInvariant, PTL
        DEF ClientSpec, StuckSocketsAreSurvived

-----------------------------------------------------------------------------
(* A call over the wire ends.                                              *)

\* The way of one attempt to its body, a pause before it included.
TripRank ==
  [t \in {"ready", "dialing", "waiting", "reading", "pausing"} |->
    CASE t = "pausing" -> 4 [] t = "ready" -> 3 [] t = "dialing" -> 2
      [] t = "waiting" -> 1 [] t = "reading" -> 0]

\* What is left of a call: pages, tries of the page at hand, the try's own way.
CallLeft == <<MaxPages - page, <<Attempts - attempt, TripRank[trip]>>>>

CallAmounts == Nat \X (Nat \X Nat)

CallBelow ==
  LexPairOrdering(OpToRel(<, Nat), LexPairOrdering(OpToRel(<, Nat), OpToRel(<, Nat), Nat, Nat),
                  Nat, Nat \X Nat)

LEMMA CallBelowByPart ==
  ASSUME NEW a \in Nat, NEW b \in Nat, NEW c \in Nat,
         NEW x \in Nat, NEW y \in Nat, NEW z \in Nat,
         a < x \/ (a = x /\ b < y) \/ (a = x /\ b = y /\ c < z)
  PROVE  <<<<a, <<b, c>>>>, <<x, <<y, z>>>>>> \in CallBelow
  BY DEF CallBelow, LexPairOrdering, OpToRel

\* A retrying transport gives up the call or has one try fewer.
LEMMA RetryUsesTry ==
  ASSUME NEW ACTION A, RetryOr(A), A => step' # "calling", step' = "calling"
  PROVE  page' = page /\ attempt' = attempt + 1
  BY DEF RetryOr

\* Each of these ends the call.
LEMMA CallEnders ==
  /\ \A result : FailsWith(result) => step' # "calling"
  /\ RefusedShortly \/ RefusedForGood \/ CallFindsServerError \/ CallSucceeds
       => step' # "calling"
  BY DEF FailsWith, CallFails, CallSucceeds, RefusedShortly, RefusedForGood,
         CallFindsServerError, SleepBefore, Return

\* An attempt that does not end the call reads a page, uses up a try or gets
\* further on its way.
LEMMA AttemptMoves ==
  ASSUME ClientTypeOK, Attempt, step' = "calling"
  PROVE  \/ page' = page + 1
         \/ page' = page /\ attempt' = attempt + 1
         \/ page' = page /\ attempt' = attempt /\ TripRank[trip'] < TripRank[trip]
  <1>1. CASE BeginTrip
    <2>1. trip = "ready" /\ trip' \in {"dialing", "waiting"} /\ UNCHANGED <<page, attempt>>
      BY <1>1 DEF BeginTrip
    <2> QED BY <2>1 DEF TripRank
  <1>2. CASE GotConn \/ PauseEnds \/ HeadersArrive
    <2>1. /\ \/ trip = "dialing" /\ trip' = "waiting"
             \/ trip = "pausing" /\ trip' = "ready"
             \/ trip = "waiting" /\ trip' = "reading"
          /\ UNCHANGED <<page, attempt>>
      BY <1>2 DEF GotConn, PauseEnds, HeadersArrive, Answering
    <2> QED BY <2>1 DEF TripRank
  <1>3. CASE DialStuck \/ HeadersTimeOut
    <2>1. RetryOr(FailsWith("network"))
      BY <1>3 DEF DialStuck, HeadersTimeOut
    <2> QED BY <2>1, CallEnders, RetryUsesTry
  <1>4. CASE ConnectionBreaks
    <2>1. RetryOr(FailsWith("network"))
      BY <1>4, CallEnders DEF ConnectionBreaks
    <2> QED BY <2>1, CallEnders, RetryUsesTry
  <1>5. CASE ServerError
    <2>1. RetryOr(CallFindsServerError)
      BY <1>5, CallEnders DEF ServerError
    <2> QED BY <2>1, CallEnders, RetryUsesTry
  <1>6. CASE PartRead
    BY <1>6 DEF PartRead
  <1>7. CASE DialRefused \/ TooManyRequests \/ Refusal \/ LastRead \/ BadBody
    <2>1. step' # "calling"
      BY <1>7, CallEnders DEF DialRefused, TooManyRequests, Refusal, LastRead, BadBody
    <2> QED BY <2>1
  <1> QED BY <1>1, <1>2, <1>3, <1>4, <1>5, <1>6, <1>7 DEF Attempt

\* What is left of a call are numbers.
LEMMA CallLeftType ==
  ASSUME ClientTypeOK
  PROVE  CallLeft \in CallAmounts
  <1>1. MaxPages - page \in Nat /\ Attempts - attempt \in Nat
    BY ClientAssumption DEF ClientTypeOK
  <1>2. TripRank[trip] \in Nat
    BY DEF ClientTypeOK, TripRank
  <1> QED BY <1>1, <1>2 DEF CallLeft, CallAmounts

\* Within a call an attempt goes down, and nothing else moves.
LEMMA CallFalls ==
  ASSUME IInv, ClientTypeOK, ClientTypeOK', [ClientNext]_clientVars,
         step = "calling", step' = "calling"
  PROVE  IF Attempt THEN <<CallLeft', CallLeft>> \in CallBelow ELSE CallLeft' = CallLeft
  <1>1. CASE Attempt
    <2>1. /\ page \in 0..MaxPages /\ page' \in 0..MaxPages
          /\ attempt \in 1..Attempts /\ attempt' \in 1..Attempts
      BY DEF ClientTypeOK
    <2>2. /\ \A p \in 0..MaxPages : MaxPages - p \in Nat
          /\ \A i \in 1..Attempts : Attempts - i \in Nat
      BY ClientAssumption
    <2>3. /\ \A p, q \in 0..MaxPages : p = q + 1 => MaxPages - p < MaxPages - q
          /\ \A i, j \in 1..Attempts : i = j + 1 => Attempts - i < Attempts - j
      BY ClientAssumption
    <2>4. TripRank[trip] \in Nat /\ TripRank[trip'] \in Nat
      BY DEF ClientTypeOK, TripRank
    <2>5. \/ MaxPages - page' < MaxPages - page
          \/ MaxPages - page' = MaxPages - page /\ Attempts - attempt' < Attempts - attempt
          \/ /\ MaxPages - page' = MaxPages - page /\ Attempts - attempt' = Attempts - attempt
             /\ TripRank[trip'] < TripRank[trip]
      BY <1>1, <2>1, <2>3, AttemptMoves
    <2>6. <<<<MaxPages - page', <<Attempts - attempt', TripRank[trip']>>>>,
            <<MaxPages - page, <<Attempts - attempt, TripRank[trip]>>>>>> \in CallBelow
      BY <2>1, <2>2, <2>4, <2>5, CallBelowByPart
    <2> QED BY <1>1, <2>6 DEF CallLeft, TripRank
  <1>2. CASE ~Attempt
    <2> SUFFICES UNCHANGED callVars
      BY <1>2 DEF callVars, CallLeft
    <2>1. ~EngineStep
      BY DEF EngineStep, SkipUnasked, LocalDigestFails, AskRegistry, Ask, Conclude,
             SkipFailed, Abort, Finish, Take, IInv, Progress
    <2>2. ~CallsAgain /\ ~GivenUp
      BY DEF CallsAgain, SleepEnds, GivenUp, CutShort, Return
    <2>3. CASE DeadlinePasses \/ \E h \in Hosts : FallsSilent(h) \/ IdleCloses(h)
      BY <2>3 DEF DeadlinePasses, FallsSilent, IdleCloses
    <2>4. CASE UNCHANGED <<conn, callVars, clockVars>>
      BY <2>4
    <2> QED BY <1>2, <2>1, <2>2, <2>3, <2>4
           DEF ClientNext, ClientEngineStep, ClientAsks, EngineStep, clientVars
  <1> QED BY <1>1, <1>2

\* A call of a registry is finite: whichever sockets, answers and pages it
\* meets, each step of the client brings it nearer to its return, and shutdown,
\* the deadline and other connections do not set it back.  MaxPages stands for
\* the length of the tag list, which the registry decides.
THEOREM CallIsFinite ==
  /\ IsWellFoundedOn(CallBelow, CallAmounts)
  /\ ClientSpec => [](CallLeft \in CallAmounts)
  /\ ClientSpec => [][step = "calling" /\ step' = "calling" =>
                        IF Attempt THEN <<CallLeft', CallLeft>> \in CallBelow
                                   ELSE CallLeft' = CallLeft]_clientVars
  <1> DEFINE Falls == step = "calling" /\ step' = "calling" =>
                        IF Attempt THEN <<CallLeft', CallLeft>> \in CallBelow
                                   ELSE CallLeft' = CallLeft
  <1>1. IsWellFoundedOn(CallBelow, CallAmounts)
    BY NatLessThanWellFounded, WFLexPairOrdering DEF CallBelow, CallAmounts
  <1>2. ClientTypeOK => CallLeft \in CallAmounts
    BY CallLeftType
  <1>3. IInv /\ ClientTypeOK /\ ClientTypeOK' /\ [ClientNext]_clientVars => [Falls]_clientVars
    BY CallFalls
  <1> HIDE DEF Falls
  <1>4. ClientSpec => [](CallLeft \in CallAmounts)
    BY <1>2, ClientTypeCorrect, PTL
  <1>5. ClientSpec => [][Falls]_clientVars
    BY <1>3, ClientTypeCorrect, PassInvariant, PTL DEF ClientSpec
  <1> QED BY <1>1, <1>4, <1>5 DEF Falls
=============================================================================
