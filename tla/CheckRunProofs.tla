--------------------------- MODULE CheckRunProofs ---------------------------
(***************************************************************************)
(* Theorems about CheckRun, for any fleet, any hosts and any answers.  The *)
(* invariant says where the one request under way stands (Progress), that  *)
(* a key without a result was never asked for (AskedOnce), that results    *)
(* and marks have a cause (Blame), that outcomes repeat the cached result  *)
(* (Repeats), and which containers are decided (Decided).                  *)
(***************************************************************************)
EXTENDS CheckRun, TLAPS

Out == step \in {"calling", "sleeping"}

\* The engine waits for exactly the request that is under way.
Progress ==
  /\ pc = "asking" <=> step # "idle"
  /\ step # "idle" => current \in Containers /\ key \in Keys /\ key = fleet[current]
  /\ step = "answered" <=> answer # Nothing
  /\ pc = "aborted" => cancelled

\* A key with no result has been asked for only by a request that is still out.
AskedOnce ==
  /\ Out => cache[key] = Nothing /\ key.host \notin limited /\ fetched[key] = 1
  /\ \A k \in Keys : cache[k] = Nothing /\ ~(Out /\ k = key) => fetched[k] = 0
  /\ \A k \in Keys : fetched[k] <= 1

\* Every failure and every mark goes back to an answer of that key or host.
Blame ==
  /\ Out /\ handler = "afterRateLimit" => strikes >= 1
  /\ \A h \in limited : \E k \in troubled : k.host = h
  /\ \A k \in Keys :
       /\ cache[k] \in Failures \ {"rateLimited"} => k \in troubled
       /\ cache[k] = "rateLimited" => k.host \in limited
  /\ answer = "rateLimited" => key.host \in limited

\* What a container was told is what is cached for its key, a rate limit aside.
Repeats ==
  /\ answer \notin {Nothing, "rateLimited"} => cache[key] = answer
  /\ \A c \in Containers :
       /\ outcome[c] \in Verdicts => cache[fleet[c]] = "ok"
       /\ outcome[c] \in Failures => fleet[c] \in Keys
       /\ outcome[c] = "rateLimited" => fleet[c].host \in limited
       /\ outcome[c] \in Failures \ {"rateLimited"} => cache[fleet[c]] = outcome[c]

\* The containers with no outcome are those to do and the one that is asked for.
Decided ==
  /\ pc # "aborted" => \A c \in Containers :
       outcome[c] = "unchecked" <=> c \in todo \/ (pc = "asking" /\ c = current)
  /\ pc = "asking" => current \notin todo

IInv == TypeOK /\ Progress /\ AskedOnce /\ Blame /\ Repeats /\ Decided

-----------------------------------------------------------------------------
\* A step is one of the engine, one of the request, the cancel or a stutter.
LEMMA StepCases ==
  ASSUME [Next]_vars
  PROVE  \/ \E c \in Containers : SkipUnasked(c) \/ LocalDigestFails(c)
         \/ \E c \in Containers : AskRegistry(c)
         \/ Conclude
         \/ SkipFailed
         \/ Abort
         \/ Finish
         \/ CallSucceeds /\ UNCHANGED runVars
         \/ CallFails /\ UNCHANGED runVars
         \/ RefusedShortly /\ UNCHANGED runVars
         \/ RefusedForGood /\ UNCHANGED runVars
         \/ CallFindsServerError /\ UNCHANGED runVars
         \/ SleepEnds /\ UNCHANGED runVars
         \/ CutShort /\ UNCHANGED runVars
         \/ Expire /\ UNCHANGED runVars
         \/ ~Ended /\ Cancel /\ UNCHANGED runVars
         \/ UNCHANGED vars
  BY DEF Next, EngineStep, CallReturns

\* Counting up to two stays within two.
LEMMA UpToTwoType ==
  \A n \in 0..2 : UpToTwo(n + 1) \in 0..2 /\ UpToTwo(n + 1) >= 1
  BY DEF UpToTwo

\* The results and failures by name.
LEMMA ResultNames ==
  /\ Results = {"ok", "missing", "rateLimited", "unavailable", "network", "other"}
  /\ Nothing \notin Results /\ Nothing \notin Keys
  BY PassAssumption DEF Results, Failures

\* Types hold at first.
LEMMA InitType == Init => TypeOK
  <1> SUFFICES ASSUME Init PROVE TypeOK
    OBVIOUS
  <1>1. "unchecked" \in Outcomes
    BY DEF Outcomes
  <1>2. outcome \in [Containers -> Outcomes]
    BY <1>1 DEF Init
  <1>3. PassTypeOK
    <2>1. 0 \in 0..2
      OBVIOUS
    <2>2. cache \in [Keys -> Results \cup {Nothing}] /\ fetched \in [Keys -> 0..2]
      BY <2>1 DEF Init, PassInit
    <2>3. answer \in Results \cup {Nothing} /\ key \in Keys \cup {Nothing}
      BY DEF Init, PassInit
    <2>4. strikes \in 0..2 /\ waits \in 0..2 /\ limited \subseteq Hosts /\ troubled \subseteq Keys
      BY <2>1 DEF Init, PassInit
    <2> QED BY <2>2, <2>3, <2>4 DEF Init, PassInit, PassTypeOK
  <1> QED BY <1>2, <1>3 DEF Init, TypeOK

\* A result that is returned leaves cache and answer in their types.
LEMMA ReturnType ==
  ASSUME PassTypeOK, NEW result \in Results, Return(result)
  PROVE  /\ cache' \in [Keys -> Results \cup {Nothing}]
         /\ answer' \in Results \cup {Nothing}
         /\ step' \in {"idle", "calling", "sleeping", "answered"}
  BY DEF PassTypeOK, Return

\* Every step keeps every variable in its type.
LEMMA TypeStep ==
  ASSUME TypeOK, Progress, [Next]_vars
  PROVE  TypeOK'
  <1> USE DEF vars, runVars, passVars, memoVars, requestVars, historyVars, TypeOK
  <1>1. ASSUME NEW c \in Containers, SkipUnasked(c) \/ LocalDigestFails(c) PROVE TypeOK'
    BY <1>1 DEF SkipUnasked, LocalDigestFails, PassTypeOK, Outcomes
  <1>2. ASSUME NEW c \in Containers, AskRegistry(c) PROVE TypeOK'
    <2>1. Ask(fleet[c]) /\ fleet[c] \in Keys
      BY <1>2 DEF AskRegistry
    <2>2. Cached(fleet[c]) \in Results \cup {Nothing}
      BY <2>1, ResultNames DEF Cached, PassTypeOK
    <2>3. fetched' \in [Keys -> 0..2]
      <3>1. fetched[fleet[c]] \in 0..2
        BY <2>1 DEF PassTypeOK
      <3>2. UpToTwo(fetched[fleet[c]] + 1) \in 0..2
        BY <3>1, UpToTwoType
      <3> QED BY <2>1, <3>2 DEF Ask, PassTypeOK
    <2>4. strikes' \in 0..2 /\ waits' \in 0..2
      BY <2>1 DEF Ask
    <2>5. answer' \in Results \cup {Nothing}
      BY <2>1, <2>2, ResultNames DEF Ask
    <2>6. /\ step' \in {"idle", "calling", "sleeping", "answered"}
          /\ handler' \in {"first", "afterRateLimit", "afterServerError"}
          /\ key' \in Keys /\ expired' \in BOOLEAN
      BY <2>1 DEF Ask
    <2>7. UNCHANGED <<cache, limited, cancelled, troubled>>
      BY <2>1 DEF Ask
    <2> HIDE DEF TypeOK
    <2>8. PassTypeOK'
      BY <2>3, <2>4, <2>5, <2>6, <2>7 DEF PassTypeOK, TypeOK
    <2> QED BY <1>2, <2>8 DEF AskRegistry, TypeOK
  <1>3. CASE Conclude \/ SkipFailed \/ Abort
    <2>1. PassTypeOK'
      BY <1>3 DEF Conclude, SkipFailed, Abort, Take, PassTypeOK
    <2> QED BY <1>3, <2>1 DEF Conclude, SkipFailed, Abort, Outcomes
  <1>4. CASE Finish
    BY <1>4 DEF Finish, PassTypeOK
  <1>5. CASE (CallSucceeds \/ CallFails \/ CutShort) /\ UNCHANGED runVars
    <2>1. step # "idle"
      BY <1>5 DEF CallSucceeds, CallFails, CutShort
    <2>2. PICK result \in Results : Return(result)
      BY <1>5, ResultNames DEF CallSucceeds, CallFails, CutShort
    <2> QED
      BY <1>5, <2>1, <2>2, ReturnType
         DEF CallSucceeds, CallFails, CutShort, PassTypeOK, Progress
  <1>6. CASE (RefusedShortly \/ SleepEnds \/ Expire \/ Cancel) /\ UNCHANGED runVars
    <2>1. CASE RefusedShortly
      <3>1. strikes' \in 0..2 /\ waits' \in 0..2
        BY <2>1, UpToTwoType DEF RefusedShortly, PassTypeOK
      <3>2. key \in Keys
        BY <2>1 DEF RefusedShortly, Progress
      <3> QED BY <1>6, <2>1, <3>1, <3>2 DEF RefusedShortly, SleepBefore, PassTypeOK
    <2>2. CASE SleepEnds \/ Expire \/ Cancel
      BY <1>6, <2>2 DEF SleepEnds, Expire, Cancel, PassTypeOK
    <2> QED BY <1>6, <2>1, <2>2
  <1>7. CASE RefusedForGood /\ UNCHANGED runVars
    <2>1. key \in Keys /\ key.host \in Hosts
      BY <1>7 DEF RefusedForGood, Progress, Keys
    <2>2. strikes' \in 0..2
      BY <1>7, UpToTwoType DEF RefusedForGood, PassTypeOK
    <2> QED
      BY <1>7, <2>1, <2>2, ReturnType, ResultNames DEF RefusedForGood, PassTypeOK
  <1>8. CASE CallFindsServerError /\ UNCHANGED runVars
    BY <1>8, ReturnType, ResultNames
       DEF CallFindsServerError, SleepBefore, PassTypeOK, Progress
  <1>9. CASE UNCHANGED vars
    BY <1>9 DEF PassTypeOK
  <1> QED BY StepCases, <1>1, <1>2, <1>3, <1>4, <1>5, <1>6, <1>7, <1>8, <1>9

\* The engine and the request keep step with each other.
LEMMA ProgressStep ==
  ASSUME TypeOK, Progress, [Next]_vars
  PROVE  Progress'
  <1> USE DEF vars, runVars, passVars, memoVars, requestVars, historyVars, Progress
  <1>1. ASSUME NEW c \in Containers, SkipUnasked(c) \/ LocalDigestFails(c) PROVE Progress'
    BY <1>1 DEF SkipUnasked, LocalDigestFails
  <1>2. ASSUME NEW c \in Containers, AskRegistry(c) PROVE Progress'
    BY <1>2, ResultNames DEF AskRegistry, Ask, Cached, TypeOK, PassTypeOK
  <1>3. CASE Conclude \/ SkipFailed \/ Abort
    BY <1>3 DEF Conclude, SkipFailed, Abort, Take
  <1>4. CASE Finish
    BY <1>4 DEF Finish
  <1>5. CASE /\ CallSucceeds \/ CallFails \/ CutShort \/ RefusedForGood \/ CallFindsServerError
             /\ UNCHANGED runVars
    BY <1>5, ResultNames
       DEF CallSucceeds, CallFails, CutShort, RefusedForGood, CallFindsServerError,
           Return, SleepBefore
  <1>6. CASE (RefusedShortly \/ SleepEnds \/ Expire \/ Cancel) /\ UNCHANGED runVars
    BY <1>6 DEF RefusedShortly, SleepBefore, SleepEnds, Expire, Cancel
  <1>7. CASE UNCHANGED vars
    BY <1>7
  <1> QED BY StepCases, <1>1, <1>2, <1>3, <1>4, <1>5, <1>6, <1>7

-----------------------------------------------------------------------------
\* Returning a result ends the request and fills the slot of its key only.
LEMMA ReturnCaches ==
  ASSUME PassTypeOK, key \in Keys, NEW result \in Results, Return(result)
  PROVE  /\ cache'[key] = result /\ answer' = result
         /\ step' = "answered"
         /\ \A k \in Keys : k # key => cache'[k] = cache[k]
         /\ result # Nothing
  BY ResultNames DEF Return, PassTypeOK

\* A call or sleep that ends a request returns some result.
LEMMA EndingCases ==
  ASSUME PassTypeOK, Progress, Out,
         \/ CallSucceeds \/ CallFails \/ RefusedForGood \/ CutShort
         \/ CallFindsServerError /\ handler = "afterServerError"
  PROVE  \E result \in Results :
           /\ Return(result)
           /\ UNCHANGED <<handler, key, fetched>>
           /\ result = "rateLimited" <=> RefusedForGood
           /\ result # "ok" => troubled' = troubled \cup {key}
           /\ result = "ok" => troubled' = troubled
           /\ RefusedForGood => limited' = limited \cup {key.host}
           /\ ~RefusedForGood => limited' = limited
  <1>1. CASE RefusedForGood
    BY <1>1, ResultNames DEF RefusedForGood
  <1>2. CASE CallSucceeds
    <2>1. Return("ok") BY <1>2 DEF CallSucceeds
    <2>2. ~RefusedForGood
      BY <2>1 DEF Return, RefusedForGood
    <2> QED BY <1>2, <2>1, <2>2, ResultNames DEF CallSucceeds, historyVars
  <1>3. CASE CallFails
    <2>1. PICK result \in {"missing", "network", "other"} : Return(result)
      BY <1>3 DEF CallFails
    <2>2. ~RefusedForGood
      BY <2>1 DEF Return, RefusedForGood
    <2> QED BY <1>3, <2>1, <2>2, ResultNames DEF CallFails
  <1>4. CASE CutShort
    <2>1. Return("network") BY <1>4 DEF CutShort
    <2>2. ~RefusedForGood
      BY <2>1 DEF Return, RefusedForGood
    <2> QED BY <1>4, <2>1, <2>2, ResultNames DEF CutShort
  <1>5. CASE CallFindsServerError /\ handler = "afterServerError"
    <2>1. Return("unavailable") BY <1>5 DEF CallFindsServerError
    <2>2. ~RefusedForGood
      BY <2>1 DEF Return, RefusedForGood
    <2> QED BY <1>5, <2>1, <2>2, ResultNames DEF CallFindsServerError
  <1> QED BY <1>1, <1>2, <1>3, <1>4, <1>5

\* Asking once: the result of an ended request stands in the way of another.
LEMMA AskedOnceStep ==
  ASSUME TypeOK, Progress, AskedOnce, [Next]_vars
  PROVE  AskedOnce'
  <1> USE DEF vars, runVars, passVars, memoVars, requestVars, historyVars
  <1>1. ASSUME NEW c \in Containers, SkipUnasked(c) \/ LocalDigestFails(c) PROVE AskedOnce'
    BY <1>1 DEF SkipUnasked, LocalDigestFails, AskedOnce, Out
  <1>2. ASSUME NEW c \in Containers, AskRegistry(c) PROVE AskedOnce'
    <2> DEFINE k0 == fleet[c]
    <2>1. k0 \in Keys /\ Ask(k0) /\ ~Out
      BY <1>2 DEF AskRegistry, Ask, TypeOK, Out
    <2>2. CASE Cached(k0) # Nothing
      BY <2>1, <2>2 DEF Ask, AskedOnce, Out
    <2>3. CASE Cached(k0) = Nothing
      <3>1. cache[k0] = Nothing /\ k0.host \notin limited
        BY <2>3, ResultNames DEF Cached
      <3>2. fetched[k0] = 0
        BY <2>1, <3>1 DEF AskedOnce
      <3>3. fetched' = [fetched EXCEPT ![k0] = 1] /\ key' = k0 /\ UNCHANGED memoVars
        BY <2>1, <2>3, <3>2 DEF Ask, UpToTwo
      <3>4. Out'
        BY <2>1, <2>3 DEF Ask, Out
      <3>5. fetched'[k0] = 1 /\ \A k \in Keys : k # k0 => fetched'[k] = fetched[k]
        BY <2>1, <3>3 DEF TypeOK, PassTypeOK
      <3>6. \A k \in Keys : k # k0 /\ cache[k] = Nothing => fetched[k] = 0
        BY <2>1 DEF AskedOnce
      <3>7. \A k \in Keys : fetched'[k] <= 1
        BY <2>1, <3>5 DEF AskedOnce
      <3> QED BY <3>1, <3>3, <3>4, <3>5, <3>6, <3>7 DEF AskedOnce
    <2> QED BY <2>2, <2>3
  <1>3. CASE Conclude \/ SkipFailed \/ Abort
    BY <1>3 DEF Conclude, SkipFailed, Abort, Take, AskedOnce, Out
  <1>4. CASE Finish
    BY <1>4 DEF Finish, AskedOnce, Out
  <1>5. ASSUME \/ CallSucceeds \/ CallFails \/ RefusedForGood \/ CutShort
               \/ CallFindsServerError /\ handler = "afterServerError"
        PROVE  AskedOnce'
    <2>1. Out /\ PassTypeOK /\ key \in Keys
      BY <1>5 DEF CallSucceeds, CallFails, RefusedForGood, CutShort,
                  CallFindsServerError, Out, TypeOK, Progress
    <2>2. PICK result \in Results : Return(result) /\ UNCHANGED <<key, fetched>>
      BY <1>5, <2>1, EndingCases
    <2>3. ~Out' /\ cache'[key] # Nothing /\ \A k \in Keys : k # key => cache'[k] = cache[k]
      BY <2>1, <2>2, ReturnCaches DEF Out
    <2> QED BY <2>1, <2>2, <2>3 DEF AskedOnce
  <1>6. CASE \/ RefusedShortly \/ SleepEnds \/ Expire \/ Cancel
             \/ CallFindsServerError /\ handler # "afterServerError"
    BY <1>6 DEF RefusedShortly, SleepBefore, SleepEnds, Expire, Cancel,
                CallFindsServerError, AskedOnce, Out
  <1>7. CASE UNCHANGED vars
    BY <1>7 DEF AskedOnce, Out
  <1> QED BY StepCases, <1>1, <1>2, <1>3, <1>4, <1>5, <1>6, <1>7

\* No failure is made up: results, marks and answers keep their causes.
LEMMA BlameStep ==
  ASSUME TypeOK, Progress, AskedOnce, Blame, [Next]_vars
  PROVE  Blame'
  <1> USE DEF vars, runVars, passVars, memoVars, requestVars, historyVars
  <1>1. ASSUME NEW c \in Containers, SkipUnasked(c) \/ LocalDigestFails(c) PROVE Blame'
    BY <1>1 DEF SkipUnasked, LocalDigestFails, Blame, Out
  <1>2. ASSUME NEW c \in Containers, AskRegistry(c) PROVE Blame'
    <2> DEFINE k0 == fleet[c]
    <2>1. k0 \in Keys /\ Ask(k0)
      BY <1>2 DEF AskRegistry, TypeOK
    <2>2. Cached(k0) = "rateLimited" => k0.host \in limited
      BY <2>1 DEF Cached, Blame
    <2> QED BY <2>1, <2>2, ResultNames DEF Ask, Blame, Out
  <1>3. CASE Conclude \/ SkipFailed \/ Abort
    BY <1>3, ResultNames DEF Conclude, SkipFailed, Abort, Take, Blame, Out
  <1>4. CASE Finish
    BY <1>4 DEF Finish, Blame, Out
  <1>5. ASSUME \/ CallSucceeds \/ CallFails \/ RefusedForGood \/ CutShort
               \/ CallFindsServerError /\ handler = "afterServerError"
        PROVE  Blame'
    <2>1. Out /\ PassTypeOK /\ key \in Keys
      BY <1>5 DEF CallSucceeds, CallFails, RefusedForGood, CutShort,
                  CallFindsServerError, Out, TypeOK, Progress
    <2>2. PICK result \in Results :
            /\ Return(result)
            /\ UNCHANGED <<handler, key, fetched>>
            /\ result = "rateLimited" <=> RefusedForGood
            /\ result # "ok" => troubled' = troubled \cup {key}
            /\ result = "ok" => troubled' = troubled
            /\ RefusedForGood => limited' = limited \cup {key.host}
            /\ ~RefusedForGood => limited' = limited
      BY <1>5, <2>1, EndingCases
    <2>3. /\ cache'[key] = result /\ answer' = result /\ ~Out'
          /\ \A k \in Keys : k # key => cache'[k] = cache[k]
      BY <2>1, <2>2, ReturnCaches DEF Out
    <2>4. \A h \in limited' : \E k \in troubled' : k.host = h
      BY <2>2 DEF Blame
    <2>5. ASSUME NEW k \in Keys
          PROVE  /\ cache'[k] \in Failures \ {"rateLimited"} => k \in troubled'
                 /\ cache'[k] = "rateLimited" => k.host \in limited'
      <3>1. CASE k = key
        BY <2>1, <2>2, <2>3, <3>1 DEF Failures
      <3>2. CASE k # key
        BY <2>2, <2>3, <3>2 DEF Blame
      <3> QED BY <3>1, <3>2
    <2>6. answer' = "rateLimited" => key'.host \in limited'
      BY <2>2, <2>3
    <2> QED BY <2>3, <2>4, <2>5, <2>6 DEF Blame
  <1>6. CASE RefusedShortly
    <2>1. strikes' >= 1
      BY <1>6, UpToTwoType DEF RefusedShortly, TypeOK, PassTypeOK
    <2> QED BY <1>6, <2>1 DEF RefusedShortly, SleepBefore, Blame, Out
  <1>7. CASE CallFindsServerError /\ handler # "afterServerError"
    BY <1>7 DEF CallFindsServerError, SleepBefore, Blame, Out
  <1>8. CASE SleepEnds \/ Expire \/ Cancel
    BY <1>8 DEF SleepEnds, Expire, Cancel, Blame, Out
  <1>9. CASE UNCHANGED vars
    BY <1>9 DEF Blame, Out
  <1> QED BY StepCases, <1>1, <1>2, <1>3, <1>4, <1>5, <1>6, <1>7, <1>8, <1>9

\* Outcomes go on repeating the result of their key, which is written once.
LEMMA RepeatsStep ==
  ASSUME TypeOK, Progress, AskedOnce, Blame, Repeats, [Next]_vars
  PROVE  Repeats'
  <1> USE DEF vars, runVars, passVars, memoVars, requestVars, historyVars
  <1> DEFINE Told(c) ==
        /\ outcome[c] \in Verdicts => cache[fleet[c]] = "ok"
        /\ outcome[c] \in Failures => fleet[c] \in Keys
        /\ outcome[c] = "rateLimited" => fleet[c].host \in limited
        /\ outcome[c] \in Failures \ {"rateLimited"} => cache[fleet[c]] = outcome[c]
  <1>0. \A c \in Containers : Told(c)
    BY DEF Repeats
  <1>1. ASSUME NEW c \in Containers, SkipUnasked(c) \/ LocalDigestFails(c) PROVE Repeats'
    <2>1. UNCHANGED <<cache, limited, answer, key, fleet>>
      BY <1>1 DEF SkipUnasked, LocalDigestFails
    <2>2. outcome' = [outcome EXCEPT ![c] = "unasked"]
      BY <1>1 DEF SkipUnasked, LocalDigestFails
    <2>3. ASSUME NEW d \in Containers PROVE Told(d)'
      BY <1>0, <2>1, <2>2 DEF Verdicts, Failures, TypeOK
    <2> QED BY <2>1, <2>3 DEF Repeats
  <1>2. ASSUME NEW c \in Containers, AskRegistry(c) PROVE Repeats'
    <2>1. Ask(fleet[c]) /\ UNCHANGED <<fleet, outcome, cache, limited>>
      BY <1>2 DEF AskRegistry, Ask
    <2>2. answer' \notin {Nothing, "rateLimited"} => cache'[key'] = answer'
      BY <2>1 DEF Ask, Cached
    <2> QED BY <2>1, <2>2 DEF Repeats
  <1>3. CASE Conclude \/ SkipFailed
    <2>1. /\ current \in Containers /\ key \in Keys /\ key = fleet[current]
          /\ UNCHANGED <<cache, limited, fleet>> /\ answer' = Nothing
      BY <1>3 DEF Conclude, SkipFailed, Take, Progress
    <2>2. PICK v \in Verdicts \cup Failures :
            /\ outcome' = [outcome EXCEPT ![current] = v]
            /\ v \in Verdicts => answer = "ok"
            /\ v \in Failures => answer = v
      BY <1>3 DEF Conclude, SkipFailed, Verdicts, Failures
    <2>3. ASSUME NEW d \in Containers PROVE Told(d)'
      <3>1. CASE d = current
        <4>1. outcome'[d] = v
          BY <2>1, <2>2, <3>1 DEF TypeOK
        <4>2. v \in Verdicts => cache[key] = "ok"
          BY <2>2, ResultNames DEF Repeats
        <4>3. v \in Failures \ {"rateLimited"} => cache[key] = v
          BY <2>2, ResultNames DEF Repeats, Failures
        <4>4. v = "rateLimited" => key.host \in limited
          BY <2>2 DEF Blame, Failures
        <4> QED BY <2>1, <3>1, <4>1, <4>2, <4>3, <4>4
      <3>2. CASE d # current
        BY <1>0, <2>1, <2>2, <3>2 DEF TypeOK
      <3> QED BY <3>1, <3>2
    <2> QED BY <2>1, <2>3 DEF Repeats
  <1>4. CASE Abort \/ Finish
    BY <1>4 DEF Abort, Finish, Take, Repeats
  <1>5. ASSUME \/ CallSucceeds \/ CallFails \/ RefusedForGood \/ CutShort
               \/ CallFindsServerError /\ handler = "afterServerError",
               UNCHANGED runVars
        PROVE  Repeats'
    <2>1. Out /\ PassTypeOK /\ key \in Keys /\ cache[key] = Nothing
      BY <1>5 DEF CallSucceeds, CallFails, RefusedForGood, CutShort,
                  CallFindsServerError, Out, TypeOK, Progress, AskedOnce
    <2>2. PICK result \in Results :
            /\ Return(result) /\ UNCHANGED key
            /\ limited' \in {limited, limited \cup {key.host}}
      BY <1>5, <2>1, EndingCases
    <2>3. /\ cache'[key] = result /\ answer' = result
          /\ \A k \in Keys : k # key => cache'[k] = cache[k]
      BY <2>1, <2>2, ReturnCaches
    <2>4. ASSUME NEW d \in Containers PROVE Told(d)'
      <3>1. fleet[d] \in Keys \cup {Nothing}
        BY DEF TypeOK
      <3>2. outcome[d] \in Verdicts => fleet[d] # key
        BY <1>0, <2>1, ResultNames
      <3>3. outcome[d] \in Failures \ {"rateLimited"} => fleet[d] # key
        BY <1>0, <2>1, ResultNames DEF Results
      <3>4. cache' = [cache EXCEPT ![key] = result]
        BY <2>2 DEF Return
      <3>5. fleet[d] # key => cache'[fleet[d]] = cache[fleet[d]]
        BY <2>1, <3>4 DEF PassTypeOK
      <3> QED BY <1>0, <1>5, <2>2, <3>2, <3>3, <3>5
    <2> QED BY <2>2, <2>3, <2>4 DEF Repeats
  <1>6. CASE /\ \/ RefusedShortly \/ SleepEnds \/ Expire \/ Cancel
                \/ CallFindsServerError /\ handler # "afterServerError"
             /\ UNCHANGED runVars
    BY <1>6 DEF RefusedShortly, SleepBefore, SleepEnds, Expire, Cancel,
                CallFindsServerError, Repeats
  <1>7. CASE UNCHANGED vars
    BY <1>7 DEF Repeats
  <1> QED BY StepCases, <1>1, <1>2, <1>3, <1>4, <1>5, <1>6, <1>7

\* A container leaves todo when it is asked for or decided, and is decided once.
LEMMA DecidedStep ==
  ASSUME TypeOK, Progress, Decided, [Next]_vars
  PROVE  Decided'
  <1> USE DEF vars, runVars
  <1>1. ASSUME NEW c \in Containers, SkipUnasked(c) \/ LocalDigestFails(c) PROVE Decided'
    <2>1. /\ pc = "checking" /\ pc' = "checking" /\ c \in todo /\ todo' = todo \ {c}
          /\ outcome' = [outcome EXCEPT ![c] = "unasked"] /\ current' = current
      BY <1>1 DEF SkipUnasked, LocalDigestFails
    <2>2. \A d \in Containers : outcome'[d] = IF d = c THEN "unasked" ELSE outcome[d]
      BY <2>1 DEF TypeOK
    <2> QED BY <2>1, <2>2 DEF Decided
  <1>2. ASSUME NEW c \in Containers, AskRegistry(c) PROVE Decided'
    BY <1>2 DEF AskRegistry, Decided
  <1>3. CASE Conclude \/ SkipFailed
    <2>1. PICK v \in Verdicts \cup Failures : outcome' = [outcome EXCEPT ![current] = v]
      BY <1>3 DEF Conclude, SkipFailed
    <2>2. pc = "asking" /\ pc' = "checking" /\ todo' = todo
      BY <1>3 DEF Conclude, SkipFailed
    <2>3. v # "unchecked"
      BY DEF Verdicts, Failures
    <2>4. \A d \in Containers : outcome'[d] = IF d = current THEN v ELSE outcome[d]
      BY <2>1 DEF TypeOK
    <2> QED BY <2>2, <2>3, <2>4 DEF Decided
  <1>4. CASE Abort \/ Finish
    BY <1>4 DEF Abort, Finish, Decided
  <1>5. CASE UNCHANGED runVars
    BY <1>5 DEF Decided
  <1> QED BY StepCases, <1>1, <1>2, <1>3, <1>4, <1>5

-----------------------------------------------------------------------------
\* The invariant holds at first.
LEMMA InitInv == Init => IInv
  <1> SUFFICES ASSUME Init PROVE IInv
    OBVIOUS
  <1>1. TypeOK
    BY InitType
  <1>2. Progress /\ AskedOnce
    BY DEF Init, PassInit, Progress, AskedOnce, Out
  <1>3. Blame
    BY ResultNames DEF Init, PassInit, Blame, Out, Results
  <1>4. Repeats
    BY DEF Init, PassInit, Repeats, Verdicts, Failures
  <1>5. Decided
    BY DEF Init, Decided
  <1> QED BY <1>1, <1>2, <1>3, <1>4, <1>5 DEF IInv

\* Every step keeps the invariant.
LEMMA InvStep == IInv /\ [Next]_vars => IInv'
  BY TypeStep, ProgressStep, AskedOnceStep, BlameStep, RepeatsStep, DecidedStep DEF IInv

\* Every behaviour of a check run satisfies the inductive invariant.
THEOREM Invariance == Spec => []IInv
  BY InitInv, InvStep, PTL DEF Spec

\* The variables of a check run keep their types.
THEOREM TypeCorrect == Spec => []TypeOK
  BY Invariance, PTL DEF IInv

-----------------------------------------------------------------------------
(* What the invariant says, state by state and step by step.  The client   *)
(* under the pass has the same invariant, hence the same consequences.     *)

\* What several containers need is asked for once.
LEMMA InvAsksOnce == IInv => FetchedOncePerPass
  BY DEF IInv, AskedOnce, FetchedOncePerPass

\* A request that is out does not go to a marked host.
LEMMA InvLimited == IInv => RateLimitedHostLeftAlone
  BY DEF IInv, AskedOnce, Out, RateLimitedHostLeftAlone

\* What two containers with the same need were told is cached once.
LEMMA InvTwins ==
  ASSUME IInv
  PROVE  TwinsAgree
  <1> SUFFICES ASSUME NEW c \in Containers, NEW d \in Containers,
                      fleet[c] = fleet[d],
                      {outcome[c], outcome[d]} \cap {"unchecked", "unasked", "rateLimited"} = {}
               PROVE  {outcome[c], outcome[d]} \subseteq Verdicts \/ outcome[c] = outcome[d]
    BY DEF TwinsAgree
  <1>1. ASSUME NEW e \in {c, d}
        PROVE  \/ outcome[e] \in Verdicts /\ cache[fleet[c]] = "ok"
               \/ /\ outcome[e] \in Failures \ {"rateLimited"}
                  /\ cache[fleet[c]] = outcome[e] /\ outcome[e] # "ok"
    BY DEF IInv, TypeOK, Outcomes, Repeats, Failures
  <1> QED BY <1>1

\* A skip has its cause in the trouble of the container's own host.
LEMMA InvLocal ==
  ASSUME IInv
  PROVE  SkipsComeFromOwnRegistry
  <1> SUFFICES ASSUME NEW c \in Containers
               PROVE  /\ outcome[c] \in Failures \ {"rateLimited"} => fleet[c] \in troubled
                      /\ outcome[c] = "rateLimited" =>
                           \E k \in troubled : k.host = fleet[c].host
    BY DEF SkipsComeFromOwnRegistry
  <1>1. outcome[c] \in Failures \ {"rateLimited"} => fleet[c] \in troubled
    BY DEF IInv, Repeats, Blame
  <1>2. outcome[c] = "rateLimited" => fleet[c].host \in limited
    BY DEF IInv, Repeats
  <1>3. \A h \in limited : \E k \in troubled : k.host = h
    BY DEF IInv, Blame
  <1> QED BY <1>1, <1>2, <1>3

\* A given-up pass has been cancelled.
LEMMA InvAborts == IInv => OnlyCancelAborts
  BY DEF IInv, Progress, OnlyCancelAborts

\* A step that marks a host had two refusals of it, or a long one.
LEMMA StepEarns ==
  ASSUME IInv, [Next]_vars
  PROVE  [\A h \in limited' \ limited : key.host = h /\ strikes' = 2]_vars
  <1> USE DEF vars, runVars, passVars, memoVars, requestVars, historyVars
  <1>1. CASE RefusedForGood
    <2>1. handler = "afterRateLimit" => strikes >= 1
      BY <1>1 DEF IInv, Blame, Out, RefusedForGood
    <2>2. strikes \in 0..2
      BY DEF IInv, TypeOK, PassTypeOK
    <2>3. handler = "afterRateLimit" => UpToTwo(strikes + 1) = 2
      BY <2>1, <2>2 DEF UpToTwo
    <2>4. strikes' = 2
      BY <1>1, <2>3 DEF RefusedForGood
    <2> QED BY <1>1, <2>4 DEF RefusedForGood
  <1>2. CASE ~RefusedForGood
    <2>1. limited' = limited
      BY <1>2, StepCases
         DEF SkipUnasked, LocalDigestFails, AskRegistry, Ask, Conclude, SkipFailed,
             Abort, Take, Finish, CallSucceeds, CallFails, RefusedShortly, SleepBefore,
             CallFindsServerError, SleepEnds, CutShort, Expire, Cancel
    <2> QED BY <2>1
  <1> QED BY <1>1, <1>2

\* A step after a cancel puts no container down as failed.
LEMMA StepCancels ==
  ASSUME IInv, [Next]_vars
  PROVE  [cancelled => \A c \in Containers :
            outcome'[c] # outcome[c] => outcome'[c] \notin Failures]_vars
  <1> USE DEF vars, runVars, passVars, memoVars, requestVars, historyVars
  <1> SUFFICES ASSUME cancelled, NEW c \in Containers, outcome'[c] # outcome[c]
               PROVE  outcome'[c] \notin Failures
    OBVIOUS
  <1>1. \/ \E d \in Containers : outcome' = [outcome EXCEPT ![d] = "unasked"]
        \/ \E v \in Verdicts : outcome' = [outcome EXCEPT ![current] = v]
        \/ UNCHANGED outcome
    BY StepCases
       DEF SkipUnasked, LocalDigestFails, AskRegistry, Conclude, SkipFailed, Abort, Finish
  <1> QED BY <1>1 DEF IInv, TypeOK, Verdicts, Failures

-----------------------------------------------------------------------------
\* However requests end and whatever the fleet needs, a pass asks a registry
\* at most once for each key.
THEOREM AskedAtMostOnce == Spec => []FetchedOncePerPass
  BY Invariance, InvAsksOnce, PTL

\* A rate-limited host gets no further call from the pass.
THEOREM LimitedHostsRest == Spec => []RateLimitedHostLeftAlone
  BY Invariance, InvLimited, PTL

\* Containers with the same need are told the same.
THEOREM TwinsToldTheSame == Spec => []TwinsAgree
  BY Invariance, InvTwins, PTL

\* A container is skipped for its own registry's failures only.
THEOREM SkipsAreLocal == Spec => []SkipsComeFromOwnRegistry
  BY Invariance, InvLocal, PTL

\* No answer of a registry can end the pass; only its cancellation does.
THEOREM FailuresAreContained == Spec => []OnlyCancelAborts
  BY Invariance, InvAborts, PTL

\* A host is marked only by the request under way to it, after two refusals or
\* a long one.
THEOREM MarksAreEarned == Spec => MarkIsEarned
  BY Invariance, StepEarns, PTL DEF Spec, MarkIsEarned

\* After a cancel no container is put down as failed by its registry.
THEOREM CancelNeverSkips == Spec => CancelIsNoSkip
  BY Invariance, StepCancels, PTL DEF Spec, CancelIsNoSkip

-----------------------------------------------------------------------------
(* A pass keeps the contract of RunOnce.                                   *)

Looked == {c \in Containers : outcome[c] # "unchecked"}
Updates == {c \in Containers : outcome[c] = "update"}
Reported ==
  CASE pc = "done" -> "found" [] pc = "aborted" -> "error" [] OTHER -> "pending"

\* Deciding one container that is not decided yet keeps the others as they are.
LEMMA DecideOne ==
  ASSUME TypeOK, NEW c \in Containers, NEW v, v # "unchecked", c \notin Looked,
         outcome' = [outcome EXCEPT ![c] = v]
  PROVE  /\ Looked' \in SUBSET Containers /\ Looked \subseteq Looked'
         /\ Updates' \subseteq Looked' /\ Updates' \cap Looked = Updates
  <1>1. \A d \in Containers : outcome'[d] = IF d = c THEN v ELSE outcome[d]
    BY DEF TypeOK
  <1> QED BY <1>1 DEF Looked, Updates

\* A step decides a container, ends the pass, or is none of the contract's.
LEMMA ContractStep ==
  ASSUME IInv, [Next]_vars
  PROVE  [Contract!Next]_<<Looked, Updates, cancelled, Reported>>
  <1> USE DEF vars, runVars, passVars, memoVars, requestVars, historyVars
  <1>0. Updates \subseteq Looked
    BY DEF Looked, Updates
  <1>1. ASSUME NEW c \in Containers, NEW v, v # "unchecked", c \notin Looked,
               outcome' = [outcome EXCEPT ![c] = v], pc \notin {"done", "aborted"},
               pc' \notin {"done", "aborted"}, cancelled' = cancelled
        PROVE  Contract!Next
    <2>1. Reported = "pending" /\ Reported' = "pending"
      BY <1>1 DEF Reported
    <2> QED BY <1>1, <2>1, DecideOne DEF IInv, Contract!Next, Contract!Decide,
               Looked, Updates, Reported
  <1>2. ASSUME NEW c \in Containers, SkipUnasked(c) \/ LocalDigestFails(c)
        PROVE  Contract!Next
    <2>1. /\ pc = "checking" /\ pc' = pc /\ cancelled' = cancelled /\ c \in todo
          /\ outcome' = [outcome EXCEPT ![c] = "unasked"]
      BY <1>2 DEF SkipUnasked, LocalDigestFails
    <2>2. c \notin Looked
      BY <2>1 DEF IInv, Decided, Looked
    <2> QED BY <1>1, <2>1, <2>2
  <1>3. CASE Conclude \/ SkipFailed
    <2>1. PICK v \in Verdicts \cup Failures : outcome' = [outcome EXCEPT ![current] = v]
      BY <1>3 DEF Conclude, SkipFailed
    <2>2. pc = "asking" /\ pc' = "checking" /\ cancelled' = cancelled
      BY <1>3 DEF Conclude, SkipFailed, Take
    <2>3. v # "unchecked"
      BY DEF Verdicts, Failures
    <2>4. current \in Containers /\ current \notin Looked
      BY <2>2 DEF IInv, Progress, Decided, Looked
    <2> QED BY <1>1, <2>1, <2>2, <2>3, <2>4
  <1>4. CASE Abort
    <2>1. pc = "asking" /\ pc' = "aborted" /\ cancelled /\ UNCHANGED <<outcome, cancelled>>
      BY <1>4 DEF Abort, Take
    <2>2. Reported = "pending" /\ Reported' = "error" /\ UNCHANGED <<Looked, Updates>>
      BY <2>1 DEF Reported, Looked, Updates
    <2> QED BY <2>1, <2>2 DEF Contract!Next, Contract!Error, Reported, Looked, Updates
  <1>5. CASE Finish
    <2>1. pc = "checking" /\ pc' = "done" /\ todo = {} /\ UNCHANGED <<outcome, cancelled>>
      BY <1>5 DEF Finish
    <2>2. Looked = Containers
      BY <2>1 DEF IInv, Decided, Looked
    <2>3. Reported = "pending" /\ Reported' = "found" /\ UNCHANGED <<Looked, Updates>>
      BY <2>1 DEF Reported, Looked, Updates
    <2> QED BY <2>1, <2>2, <2>3 DEF Contract!Next, Contract!Found, Reported, Looked, Updates
  <1>6. ASSUME NEW c \in Containers, AskRegistry(c)
        PROVE  UNCHANGED <<Looked, Updates, cancelled, Reported>>
    BY <1>6 DEF AskRegistry, Ask, Looked, Updates, Reported
  <1>7. CASE ~Ended /\ Cancel /\ UNCHANGED runVars
    <2>1. cancelled' = TRUE /\ UNCHANGED <<Looked, Updates, Reported>>
      BY <1>7 DEF Cancel, Looked, Updates, Reported
    <2>2. Reported = "pending" /\ Looked \in SUBSET Containers
      BY <1>7 DEF Ended, IInv, TypeOK, Reported, Looked
    <2> HIDE DEF vars, runVars, passVars, memoVars, requestVars, historyVars
    <2>3. Contract!Decide
      BY <1>0, <2>1, <2>2 DEF Contract!Decide, Looked, Updates, Reported
    <2> QED BY <2>2, <2>3 DEF Contract!Next, Looked, Updates, Reported
  <1>8. CASE /\ \/ CallSucceeds \/ CallFails \/ RefusedShortly \/ RefusedForGood
                \/ CallFindsServerError \/ SleepEnds \/ CutShort \/ Expire
             /\ UNCHANGED runVars
    <2>1. UNCHANGED <<cancelled, outcome, pc>>
      BY <1>8 DEF CallSucceeds, CallFails, RefusedShortly, RefusedForGood,
                  CallFindsServerError, SleepEnds, CutShort, Expire
    <2> QED BY <2>1 DEF Looked, Updates, Reported
  <1>9. CASE UNCHANGED vars
    BY <1>9 DEF Looked, Updates, Reported
  <1> QED BY StepCases, <1>2, <1>3, <1>4, <1>5, <1>6, <1>7, <1>8, <1>9

\* At first nothing is decided.
LEMMA ContractInit == Init => Contract!Init
  BY DEF Init, PassInit, Contract!Init

\* A check run keeps the contract of RunOnce that Daemon relies on.
THEOREM RunKeepsContract == Spec => PassKeepsContract
  BY ContractInit, ContractStep, Invariance, PTL
     DEF Spec, PassKeepsContract, Contract!Spec, Looked, Updates, Reported
=============================================================================
