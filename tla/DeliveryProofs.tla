--------------------------- MODULE DeliveryProofs ---------------------------
(***************************************************************************)
(* Theorems about Delivery, for any length of the batch and any number of  *)
(* attempts.  The invariant says which part of the batch is settled and    *)
(* where the body at hand lies (Position), what the service may hold of    *)
(* the rest (Received), and that POSTs follow attempts (Counting).         *)
(***************************************************************************)
EXTENDS Delivery, WellFoundedInduction, TLAPS

Active == pc \in {"trying", "posting", "sleeping"}

\* Everything before `first` is settled; the body at hand begins there.
Position ==
  /\ settled = 1..(first - 1)
  /\ result = "pending" <=> pc # "returned"
  /\ pc # "returned" => cause = "none"
  /\ result = "nil" => first = Batch + 1
  /\ pc = "rendering" => first <= Batch /\ last = first - 1 /\ (mode = "digest" => first = 1)
  /\ Active => first <= last /\ last <= SliceEnd /\ first <= Batch

\* The service has nothing after the body at hand, and that body as a whole.
Orderly(r) ==
  /\ \A e \in Events : e > last => r[e] = 0
  /\ \A d, e \in Events : d >= first /\ e >= first /\ d <= last /\ e <= last => r[d] = r[e]

Received == pc = "rendering" \/ Active => Orderly(received)

\* One POST for each attempt, counted from one for each body.
Counting ==
  /\ pc = "rendering" => try = 1
  /\ pc = "trying" => posts = try - 1
  /\ pc \in {"posting", "sleeping"} => posts = try
  /\ pc = "sleeping" => try < MaxAttempts

IInv ==
  /\ TypeOK /\ Position /\ Received /\ Counting
  /\ FailureStopsBatch /\ RetriesSpentExactly

-----------------------------------------------------------------------------
\* There is an event, and an attempt whatever number of retries is configured.
LEMMA Sizes == Batch \in Nat \ {0} /\ MaxAttempts \in Nat \ {0}
  BY DeliveryAssumption DEF MaxAttempts

\* `retries` counts the attempts, and 0 means 1.
LEMMA RetriesMeant == MaxAttempts = IF Retries = 0 THEN 1 ELSE Retries
  BY DeliveryAssumption DEF MaxAttempts

\* The end of the sendBatch is an event while there is one left.
LEMMA SliceEndType ==
  ASSUME TypeOK, first <= Batch
  PROVE  SliceEnd \in Events /\ SliceEnd \in first..Batch
  BY Sizes DEF SliceEnd, TypeOK, Events

\* What a POST of the body at hand may leave behind at the service.
LEMMA AfterPost ==
  ASSUME TypeOK, Active, Received, PerhapsReceived
  PROVE  received' \in [Events -> 0..2] /\ Orderly(received')
  <1>1. Orderly(received) /\ received \in [Events -> 0..2] /\ first \in Nat /\ last \in Nat
    BY Sizes DEF Received, TypeOK
  <1>2. CASE UNCHANGED received
    BY <1>1, <1>2 DEF Orderly
  <1>3. CASE Receive(Body)
    <2>1. Events \subseteq Nat
      BY DEF Events
    <2>2. \A e \in Events : e \in Body <=> e >= first /\ e <= last
      BY <1>1, <2>1 DEF Body
    <2>3. received' = [e \in Events |->
            IF e \in Body /\ received[e] < 2 THEN received[e] + 1 ELSE received[e]]
      BY <1>3 DEF Receive
    <2>4. \A e \in Events : received[e] \in 0..2
      BY <1>1
    <2>5. received' \in [Events -> 0..2]
      BY <2>3, <2>4
    <2>6. ASSUME NEW e \in Events, e > last PROVE received'[e] = 0
      BY <1>1, <2>1, <2>2, <2>3, <2>6 DEF Orderly
    <2>7. ASSUME NEW d \in Events, NEW e \in Events,
                 d >= first, e >= first, d <= last, e <= last
          PROVE  received'[d] = received'[e]
      BY <1>1, <2>2, <2>3, <2>7 DEF Orderly
    <2> QED BY <2>5, <2>6, <2>7 DEF Orderly
  <1> QED BY <1>2, <1>3 DEF PerhapsReceived

\* The order of messages follows from the position of the body at hand.
LEMMA OrderFollows ==
  ASSUME TypeOK, first <= last + 1, NEW r, Orderly(r), r \in [Events -> 0..2],
         NEW S, 1..(first - 1) \subseteq S,
         NEW e \in Events, r[e] > 0, NEW d \in 1..e
  PROVE  d \in S \/ r[d] = r[e]
  <1>1. first \in Nat /\ last \in Nat /\ e \in Nat /\ d \in Nat /\ d \in Events
    BY Sizes DEF TypeOK, Events
  <1>2. e <= last
    <2>1. e > last => r[e] = 0
      BY DEF Orderly
    <2> QED BY <1>1, <2>1
  <1>3. d < first => d \in S
    BY <1>1
  <1>4. d >= first => r[d] = r[e]
    BY <1>1, <1>2 DEF Orderly
  <1> QED BY <1>1, <1>3, <1>4

\* The invariant holds at first.
LEMMA InitInvariant == Init => IInv
  <1> SUFFICES ASSUME Init PROVE IInv
    OBVIOUS
  <1> USE Sizes DEF Init
  <1>1. TypeOK
    <2>1. received \in [Events -> 0..2] /\ settled \in SUBSET Events
      BY DEF Events
    <2>2. first \in 1..(Batch + 1) /\ last \in 0..Batch /\ try \in 1..MaxAttempts /\ posts \in 0..MaxAttempts
      OBVIOUS
    <2> QED BY <2>1, <2>2 DEF TypeOK, Causes
  <1>2. Position /\ Counting /\ RetriesSpentExactly
    BY DEF Position, Active, Counting, RetriesSpentExactly
  <1>3. Received /\ FailureStopsBatch
    BY DEF Received, Orderly, FailureStopsBatch, Events
  <1> QED BY <1>1, <1>2, <1>3 DEF IInv

-----------------------------------------------------------------------------
(* The two ways in which a body or the call ends.                          *)

\* Notify fails: nothing moves, and the service has the body at most.
LEMMA FailKeeps ==
  ASSUME IInv, pc = "rendering" \/ Active, NEW why \in Causes, Fail(why),
         UNCHANGED <<cancelled, settled, posts>>,
         received' \in [Events -> 0..2], Orderly(received'),
         why = "exhausted" => posts = MaxAttempts
  PROVE  IInv'
  <1> USE DEF IInv, Fail, callVars
  <1>1. TypeOK'
    BY DEF TypeOK
  <1>2. Position' /\ Received' /\ Counting'
    BY DEF Position, Received, Counting, Active
  <1>3. first <= last + 1
    BY Sizes DEF Position, TypeOK, Active
  <1>4. FailureStopsBatch'
    <2>1. 1..(first - 1) \subseteq settled'
      BY DEF Position
    <2> QED BY <1>3, <2>1, OrderFollows DEF FailureStopsBatch
  <1>5. RetriesSpentExactly'
    BY RetriesMeant DEF RetriesSpentExactly
  <1> QED BY <1>1, <1>2, <1>4, <1>5

\* A body or a blank sendBatch is settled: the call goes on behind it.
LEMMA ProceedKeeps ==
  ASSUME IInv, pc = "rendering" \/ Active, NEW done \in Events,
         first <= done, last <= done, done <= SliceEnd, Proceed(done),
         pc = "rendering" => done = SliceEnd,
         settled' = settled \cup (first..done),
         received' \in [Events -> 0..2],
         \A e \in Events : e > done => received'[e] = 0,
         done < SliceEnd => posts' = 0, posts' \in 0..MaxAttempts,
         UNCHANGED <<mode, cancelled, cause>>
  PROVE  IInv'
  <1> USE DEF IInv, Proceed
  <1>1. first \in Nat /\ first >= 1 /\ last \in Nat /\ done \in Nat /\ done <= Batch /\ Batch \in Nat
        /\ SliceEnd \in Nat /\ SliceEnd <= Batch
    BY Sizes, SliceEndType DEF TypeOK, Events
  <1>2. settled' = 1..done
    BY <1>1 DEF Position
  <1>3. TypeOK'
    <2>1. settled' \subseteq Events /\ first' \in 1..(Batch + 1) /\ last' \in 0..Batch /\ try' \in 1..MaxAttempts
      BY <1>1, <1>2, Sizes DEF Events
    <2> QED BY <2>1 DEF TypeOK
  <1>4. Position'
    <2>1. CASE done < SliceEnd
      <3>1. mode = "digest" /\ SliceEnd = Batch
        BY <1>1, <2>1 DEF SliceEnd
      <3>2. SliceEnd' = Batch
        BY <3>1 DEF SliceEnd
      <3>3. pc' = "trying" /\ result' = result /\ last' \in (done + 1)..Batch
        BY <1>1, <2>1, <3>1
      <3>4. result = "pending"
        BY DEF Position, Active
      <3> QED BY <1>1, <1>2, <3>2, <3>3, <3>4 DEF Position, Active
    <2>2. CASE done = SliceEnd /\ done < Batch
      <3>1. mode # "digest"
        BY <1>1, <2>2 DEF SliceEnd
      <3>2. result = "pending"
        BY DEF Position, Active
      <3> QED BY <1>1, <1>2, <2>2, <3>1, <3>2 DEF Position, Active
    <2>3. CASE done = Batch
      BY <1>1, <1>2, <2>3 DEF Position, Active
    <2> QED BY <1>1, <2>1, <2>2, <2>3
  <1>5. Received'
    <2>1. done <= last' /\ first' = done + 1 /\ last' \in Nat
      BY <1>1
    <2>2. Events \subseteq Nat
      BY DEF Events
    <2> QED BY <1>1, <2>1, <2>2 DEF Received, Orderly
  <1>6. Counting'
    BY <1>1, Sizes DEF Counting
  <1>7. FailureStopsBatch'
    <2> SUFFICES ASSUME NEW e \in Events, received'[e] > 0, NEW d \in 1..e
                 PROVE  d \in settled'
      BY DEF FailureStopsBatch
    <2>1. e \in Nat /\ e <= done
      BY <1>1 DEF Events
    <2> QED BY <1>1, <1>2, <2>1
  <1>8. RetriesSpentExactly'
    BY DEF RetriesSpentExactly, Position, Active
  <1> QED BY <1>3, <1>4, <1>5, <1>6, <1>7, <1>8

-----------------------------------------------------------------------------
\* A step is a step of the call, the cancel or a stutter.
LEMMA StepCases ==
  ASSUME [Next]_vars
  PROVE  \/ Render \/ RenderBlank \/ RenderFails \/ Post
         \/ Accepted \/ Rejected \/ TimesOut \/ Interrupted \/ Troubled
         \/ SleepEnds \/ GiveUp \/ Cancel \/ UNCHANGED vars
  BY DEF Next, CallStep, Reply

\* A step that leaves the position, the replies and the cause alone keeps the
\* order of messages and the spent retries.
LEMMA HistoryKept ==
  ASSUME FailureStopsBatch, UNCHANGED <<received, settled>>
  PROVE  FailureStopsBatch'
  BY DEF FailureStopsBatch

\* Every step keeps the invariant.
LEMMA InvariantStep ==
  ASSUME IInv, [Next]_vars
  PROVE  IInv'
  <1> USE DEF IInv
  <1>0. "render" \in Causes /\ "cancel" \in Causes /\ "rejected" \in Causes
        /\ "timeout" \in Causes /\ "exhausted" \in Causes
    BY DEF Causes
  <1>1. ASSUME Render PROVE IInv'
    <2> USE <1>1 DEF Render
    <2>1. first \in 1..Batch /\ SliceEnd \in first..Batch
      BY SliceEndType DEF Position, TypeOK
    <2>2. last' \in first..SliceEnd /\ last' \in 0..Batch
      BY <2>1, Sizes
    <2>3. TypeOK'
      BY <2>2, Sizes DEF TypeOK
    <2>4. Position'
      BY <2>1, <2>2 DEF Position, Active, SliceEnd
    <2>5. Received'
      BY <2>1, <2>2 DEF Received, Orderly, Position, TypeOK, Events
    <2>6. Counting' /\ RetriesSpentExactly'
      BY DEF Counting, RetriesSpentExactly, Position
    <2> QED BY <2>3, <2>4, <2>5, <2>6, HistoryKept
  <1>2. ASSUME RenderBlank PROVE IInv'
    <2> USE <1>2 DEF RenderBlank
    <2>1. SliceEnd \in Events /\ first <= SliceEnd /\ SliceEnd \in Nat /\ first \in Nat /\ last = first - 1
      BY SliceEndType, Sizes DEF Position, TypeOK, Events
    <2>2. last <= SliceEnd /\ SliceEnd <= SliceEnd /\ ~(SliceEnd < SliceEnd)
      BY <2>1
    <2>3. \A e \in Events : e > SliceEnd => received'[e] = 0
      BY <2>1 DEF Received, Orderly, Events
    <2>4. received' \in [Events -> 0..2] /\ posts' \in 0..MaxAttempts
      BY DEF TypeOK
    <2> QED BY <2>1, <2>2, <2>3, <2>4, ProceedKeeps
  <1>3. ASSUME RenderFails PROVE IInv'
    <2>1. received' \in [Events -> 0..2] /\ Orderly(received')
      BY <1>3 DEF RenderFails, historyVars, TypeOK, Received
    <2> QED BY <1>0, <1>3, <2>1, FailKeeps DEF RenderFails, historyVars
  <1>4. ASSUME Post PROVE IInv'
    <2> USE <1>4 DEF Post, callVars
    <2>1. posts' = try /\ try \in 1..MaxAttempts /\ posts' \in 0..MaxAttempts
      BY Sizes DEF Counting, TypeOK
    <2>2. TypeOK' /\ Counting' /\ RetriesSpentExactly'
      BY <2>1 DEF TypeOK, Counting, RetriesSpentExactly, Position
    <2>3. Position' /\ Received'
      BY DEF Position, Received, Active, Orderly, SliceEnd
    <2> QED BY <2>2, <2>3, HistoryKept
  <1>5. ASSUME Accepted PROVE IInv'
    <2> USE <1>5 DEF Accepted
    <2>1. Active /\ PerhapsReceived
      BY DEF Active, PerhapsReceived
    <2>2. received' \in [Events -> 0..2] /\ Orderly(received')
      BY <2>1, AfterPost
    <2>3. first \in Nat /\ last \in Nat /\ SliceEnd \in Nat /\ SliceEnd <= Batch /\ first >= 1 /\ Batch \in Nat
      BY <2>1, SliceEndType, Sizes DEF Position, TypeOK, Events
    <2>4. last \in Events /\ first <= last /\ last <= last /\ last <= SliceEnd
      BY <2>1, <2>3 DEF Position, Events
    <2>5. \A e \in Events : e > last => received'[e] = 0
      BY <2>2 DEF Orderly
    <2>6. settled' = settled \cup (first..last)
      BY DEF Body
    <2>7. posts' = 0 /\ posts' \in 0..MaxAttempts /\ pc # "rendering"
      BY Sizes
    <2> QED BY <2>1, <2>2, <2>4, <2>5, <2>6, <2>7, ProceedKeeps
  <1>6. ASSUME Rejected \/ TimesOut \/ Interrupted PROVE IInv'
    <2>1. Active /\ PerhapsReceived /\ UNCHANGED <<cancelled, settled, posts>>
      BY <1>6 DEF Active, Rejected, TimesOut, Interrupted
    <2>2. Fail("rejected") \/ Fail("timeout") \/ Fail("cancel")
      BY <1>6 DEF Rejected, TimesOut, Interrupted
    <2> QED BY <1>0, <2>1, <2>2, AfterPost, FailKeeps
  <1>7. ASSUME Troubled PROVE IInv'
    <2>1. Active /\ PerhapsReceived /\ UNCHANGED <<cancelled, settled, posts>>
      BY <1>7 DEF Active, Troubled
    <2>2. received' \in [Events -> 0..2] /\ Orderly(received')
      BY <2>1, AfterPost
    <2>3. CASE try = MaxAttempts
      <3>1. posts = MaxAttempts /\ Fail("exhausted")
        BY <1>7, <2>3 DEF Troubled, Counting
      <3> QED BY <1>0, <2>1, <2>2, <3>1, FailKeeps
    <2>4. CASE try # MaxAttempts
      <3> USE <1>7, <2>4 DEF Troubled, callVars
      <3>1. try < MaxAttempts
        BY Sizes DEF TypeOK
      <3>2. TypeOK' /\ Counting' /\ RetriesSpentExactly'
        BY <2>2, <3>1 DEF TypeOK, Counting, RetriesSpentExactly, Position
      <3>3. Position' /\ Received'
        BY <2>2 DEF Position, Received, Active, Orderly, SliceEnd
      <3>4. first <= last + 1 /\ 1..(first - 1) \subseteq settled'
        BY <2>1, Sizes DEF Position, TypeOK
      <3>5. FailureStopsBatch'
        BY <2>2, <3>4, OrderFollows DEF FailureStopsBatch
      <3> QED BY <3>2, <3>3, <3>5
    <2> QED BY <2>3, <2>4
  <1>8. ASSUME SleepEnds PROVE IInv'
    <2> USE <1>8 DEF SleepEnds, historyVars
    <2>1. try' \in 1..MaxAttempts /\ posts' = try' - 1
      BY Sizes DEF Counting, TypeOK
    <2>2. TypeOK' /\ Counting' /\ RetriesSpentExactly'
      BY <2>1 DEF TypeOK, Counting, RetriesSpentExactly, Position
    <2>3. Position' /\ Received'
      BY DEF Position, Received, Active, Orderly, SliceEnd
    <2> QED BY <2>2, <2>3, HistoryKept
  <1>9. ASSUME GiveUp PROVE IInv'
    <2>1. Active /\ received' \in [Events -> 0..2] /\ Orderly(received')
      BY <1>9 DEF GiveUp, historyVars, TypeOK, Received, Active
    <2> QED BY <1>0, <1>9, <2>1, FailKeeps DEF GiveUp, historyVars
  <1>10. ASSUME Cancel \/ UNCHANGED vars PROVE IInv'
    <2>1. UNCHANGED <<callVars, pc, result, historyVars, cause>> /\ cancelled' \in BOOLEAN
      BY <1>10 DEF Cancel, vars, TypeOK
    <2> USE <2>1 DEF callVars, historyVars
    <2>2. TypeOK' /\ Counting' /\ RetriesSpentExactly'
      BY DEF TypeOK, Counting, RetriesSpentExactly
    <2>3. Position' /\ Received'
      BY DEF Position, Received, Active, Orderly, SliceEnd
    <2> QED BY <2>2, <2>3, HistoryKept
  <1> QED BY <1>1, <1>2, <1>3, <1>4, <1>5, <1>6, <1>7, <1>8, <1>9, <1>10, StepCases

\* The inductive invariant of one Notify.
THEOREM Invariance == Spec => []IInv
  BY InitInvariant, InvariantStep, PTL DEF Spec

\* Every variable keeps its type.
THEOREM TypeCorrect == Spec => []TypeOK
  <1>1. IInv => TypeOK
    BY DEF IInv
  <1> QED BY <1>1, Invariance, PTL

\* The loops of Notify over events and bodies stop at the first error.
THEOREM FailureIsLast == Spec => []FailureStopsBatch
  <1>1. IInv => FailureStopsBatch
    BY DEF IInv
  <1> QED BY <1>1, Invariance, PTL

\* httpretry.Do ends with its last error after exactly MaxAttempts POSTs.
THEOREM RetriesCounted == Spec => []RetriesSpentExactly
  <1>1. IInv => RetriesSpentExactly
    BY DEF IInv
  <1> QED BY <1>1, Invariance, PTL

\* No step looks at an acknowledged event again.
LEMMA AckedStep ==
  ASSUME IInv, [Next]_vars, NEW e \in settled
  PROVE  received'[e] = received[e]
  <1> USE DEF IInv
  <1>1. CASE ~PerhapsReceived
    BY <1>1, StepCases DEF Render, RenderBlank, RenderFails, Post, Accepted, Rejected,
       TimesOut, Interrupted, Troubled, SleepEnds, GiveUp, Cancel, vars, historyVars, PerhapsReceived
  <1>2. CASE PerhapsReceived
    <2>1. e \in Events /\ e \notin Body /\ e \in DOMAIN received
      BY DEF Position, TypeOK, Body, Events
    <2> QED BY <1>2, <2>1 DEF PerhapsReceived, Receive
  <1> QED BY <1>1, <1>2

\* What a service has acknowledged, Notify does not post again.
THEOREM AckedNeverResent == Spec => AcknowledgedOnce
  <1>1. IInv /\ [Next]_vars => [\A e \in settled : received'[e] = received[e]]_vars
    BY AckedStep
  <1> QED BY <1>1, Invariance, PTL DEF Spec, AcknowledgedOnce

\* The context is looked at before every attempt.
THEOREM StopsWhenCancelled == Spec => NoPostOnceCancelled
  <1>1. [Next]_vars => [cancelled /\ pc # "posting" => pc' # "posting"]_vars
    <2> SUFFICES ASSUME [Next]_vars, cancelled, pc # "posting" PROVE pc' # "posting"
      OBVIOUS
    <2> QED BY StepCases DEF Render, RenderBlank, RenderFails, Post, Accepted, Rejected,
       TimesOut, Interrupted, Troubled, SleepEnds, GiveUp, Cancel, Proceed, Fail, vars
  <1> QED BY <1>1, PTL DEF Spec, NoPostOnceCancelled

-----------------------------------------------------------------------------
\* A step settles more of the batch, in order, or ends the call.
LEMMA ContractStep ==
  ASSUME IInv, IInv', [Next]_vars
  PROVE  [Contract!Next]_<<settled, result>>
  <1> USE DEF IInv
  <1>1. CASE result # "pending"
    <2>1. pc = "returned"
      BY <1>1 DEF Position
    <2> QED BY <2>1, StepCases DEF Render, RenderBlank, RenderFails, Post, Accepted, Rejected,
       TimesOut, Interrupted, Troubled, SleepEnds, GiveUp, Cancel, vars, historyVars
  <1>2. CASE result = "pending"
    <2>1. settled' = 1..(first' - 1) /\ first' \in 1..(Batch + 1)
      BY DEF Position, TypeOK
    <2>2. first' - 1 \in 0..Batch
      <3>1. \A f \in 1..(Batch + 1) : f - 1 \in 0..Batch
        BY Sizes
      <3> QED BY <2>1, <3>1
    <2>3. settled' \in {1..n : n \in 0..Batch}
      BY <2>1, <2>2
    <2>4. settled \subseteq settled'
      BY StepCases DEF Render, RenderBlank, RenderFails, Post, Accepted, Rejected,
         TimesOut, Interrupted, Troubled, SleepEnds, GiveUp, Cancel, vars, historyVars
    <2>5. result' \in {"pending", "nil", "error"}
      BY DEF TypeOK
    <2>6. result' = "nil" => settled' = 1..Batch
      BY <2>1, Sizes DEF Position
    <2> QED BY <1>2, <2>3, <2>4, <2>5, <2>6 DEF Contract!Next
  <1> QED BY <1>1, <1>2

\* Notify of every HTTP notifier keeps the contract of notifyAll.
THEOREM DeliveryKeepsContract == Spec => ContractKept
  <1>1. Init => Contract!Init
    BY DEF Init, Contract!Init
  <1> QED BY <1>1, ContractStep, Invariance, PTL DEF Spec, ContractKept, Contract!Spec
-----------------------------------------------------------------------------
(* Notify ends: each of its steps, a stop included, lowers what is left of  *)
(* it, and what is left cannot go down for ever.                            *)

\* What is left: events, attempts of the body at hand, and the way to the reply.
Rank ==
  [p \in {"rendering", "trying", "posting", "sleeping", "returned"} |->
    CASE p = "rendering" -> 4 [] p = "trying" -> 3 [] p = "posting" -> 2
      [] p = "sleeping" -> 1 [] p = "returned" -> 0]

Left ==
  <<Batch + 1 - first, <<MaxAttempts - try, Rank[pc] + IF cancelled THEN 0 ELSE 1>>>>

Amounts == Nat \X (Nat \X Nat)

Below ==
  LexPairOrdering(OpToRel(<, Nat), LexPairOrdering(OpToRel(<, Nat), OpToRel(<, Nat), Nat, Nat),
                  Nat, Nat \X Nat)

LEMMA BelowWellFounded == IsWellFoundedOn(Below, Amounts)
  BY NatLessThanWellFounded, WFLexPairOrdering DEF Below, Amounts

LEMMA BelowByPart ==
  ASSUME NEW a \in Nat, NEW b \in Nat, NEW c \in Nat,
         NEW x \in Nat, NEW y \in Nat, NEW z \in Nat,
         a < x \/ (a = x /\ b < y) \/ (a = x /\ b = y /\ c < z)
  PROVE  <<<<a, <<b, c>>>>, <<x, <<y, z>>>>>> \in Below
  BY DEF Below, LexPairOrdering, OpToRel

LEMMA LeftType ==
  ASSUME TypeOK
  PROVE  Left \in Amounts
  <1>1. Batch + 1 - first \in Nat /\ MaxAttempts - try \in Nat
    BY Sizes DEF TypeOK
  <1>2. Rank[pc] \in Nat
    BY DEF TypeOK, Rank
  <1> QED BY <1>1, <1>2 DEF Left, Amounts

\* Every step other than a stutter goes down.
LEMMA LeftFalls ==
  ASSUME IInv, IInv', Next
  PROVE  <<Left', Left>> \in Below
  <1> USE DEF IInv
  <1> DEFINE Way(p, stopped) == Rank[p] + IF stopped THEN 0 ELSE 1
  <1>1. /\ first \in 1..(Batch + 1) /\ first' \in 1..(Batch + 1)
        /\ try \in 1..MaxAttempts /\ try' \in 1..MaxAttempts
    BY DEF TypeOK
  <1>2. /\ Batch + 1 - first \in Nat /\ Batch + 1 - first' \in Nat
        /\ MaxAttempts - try \in Nat /\ MaxAttempts - try' \in Nat
    <2>1. \A f \in 1..(Batch + 1), t \in 1..MaxAttempts :
            Batch + 1 - f \in Nat /\ MaxAttempts - t \in Nat
      BY Sizes
    <2> QED BY <1>1, <2>1
  <1>3. Way(pc, cancelled) \in Nat /\ Way(pc', cancelled') \in Nat
    BY DEF TypeOK, Rank
  <1>4. \/ first' > first
        \/ first' = first /\ try' > try
        \/ first' = first /\ try' >= try /\ Way(pc', cancelled') < Way(pc, cancelled)
    <2> USE DEF Rank
    <2>1. ASSUME NEW why, Fail(why), pc # "returned", UNCHANGED cancelled
          PROVE  first' = first /\ try' = try /\ Way(pc', cancelled') < Way(pc, cancelled)
      BY <2>1 DEF Fail, callVars, TypeOK
    <2>2. ASSUME NEW done \in Nat, first <= done, Proceed(done)
          PROVE  first' > first
      BY <1>1, <2>2, Sizes DEF Proceed
    <2>3. CASE Render
      BY <1>1, <2>3 DEF Render, Counting
    <2>4. CASE RenderBlank
      <3>1. SliceEnd \in Nat /\ first <= SliceEnd
        BY <2>4, SliceEndType, Sizes DEF RenderBlank, Position, TypeOK, Events
      <3> QED BY <2>2, <2>4, <3>1 DEF RenderBlank
    <2>5. CASE Accepted
      <3>1. last \in Nat /\ first <= last
        BY <2>5, Sizes DEF Accepted, Position, Active, TypeOK
      <3> QED BY <2>2, <2>5, <3>1 DEF Accepted
    <2>6. CASE RenderFails \/ Rejected \/ TimesOut \/ Interrupted \/ GiveUp
      <3>1. \E why \in Causes : Fail(why)
        BY <2>6 DEF RenderFails, Rejected, TimesOut, Interrupted, GiveUp, Causes
      <3>2. pc # "returned" /\ UNCHANGED cancelled
        BY <2>6 DEF RenderFails, Rejected, TimesOut, Interrupted, GiveUp
      <3>3. first' = first /\ try' = try /\ Way(pc', cancelled') < Way(pc, cancelled)
        BY <2>1, <3>1, <3>2
      <3> QED BY <1>1, <3>3
    <2>7. CASE Post
      BY <1>1, <2>7 DEF Post, callVars
    <2>8. CASE Troubled
      BY <1>1, <2>1, <2>8 DEF Troubled, callVars
    <2>9. CASE SleepEnds
      BY <1>1, <2>9, Sizes DEF SleepEnds
    <2>10. CASE Cancel
      <3>1. pc' = pc /\ ~cancelled /\ cancelled' /\ UNCHANGED <<first, try>>
        BY <2>10 DEF Cancel, callVars
      <3>2. Way(pc', cancelled') < Way(pc, cancelled)
        BY <3>1 DEF TypeOK
      <3> QED BY <1>1, <3>1, <3>2
    <2> QED BY <2>3, <2>4, <2>5, <2>6, <2>7, <2>8, <2>9, <2>10 DEF Next, CallStep, Reply
  <1> HIDE DEF Way
  <1>5. \/ Batch + 1 - first' < Batch + 1 - first
        \/ /\ Batch + 1 - first' = Batch + 1 - first
           /\ MaxAttempts - try' < MaxAttempts - try
        \/ /\ Batch + 1 - first' = Batch + 1 - first
           /\ MaxAttempts - try' = MaxAttempts - try
           /\ Way(pc', cancelled') < Way(pc, cancelled)
    <2>1. \A f, g \in 1..(Batch + 1) : f > g => Batch + 1 - f < Batch + 1 - g
      BY Sizes
    <2>2. \A t, u \in 1..MaxAttempts : t > u => MaxAttempts - t < MaxAttempts - u
      BY Sizes
    <2>3. try' >= try => try' > try \/ try' = try
      BY <1>1, Sizes
    <2> QED BY <1>1, <1>4, <2>1, <2>2, <2>3
  <1>6. <<<<Batch + 1 - first', <<MaxAttempts - try', Way(pc', cancelled')>>>>,
          <<Batch + 1 - first, <<MaxAttempts - try, Way(pc, cancelled)>>>>>> \in Below
    BY <1>2, <1>3, <1>5, BelowByPart
  <1> QED BY <1>6 DEF Left, Way

\* What each step does to it.
Lowered == <<Left', Left>> \in Below

\* No batch, number of attempts or reply of a service keeps Notify going for
\* ever: whatever it does, and a stop too, brings it nearer to its return.  With
\* a goroutine that goes on this is why NotifyReturns holds.
THEOREM NotifyIsFinite ==
  /\ IsWellFoundedOn(Below, Amounts)
  /\ Spec => [](Left \in Amounts) /\ [][Lowered]_vars
  <1>1. IInv => Left \in Amounts
    BY LeftType DEF IInv
  <1>2. IInv /\ IInv' /\ [Next]_vars => [Lowered]_vars
    BY LeftFalls DEF Lowered
  <1> QED BY <1>1, <1>2, BelowWellFounded, Invariance, PTL DEF Spec

=============================================================================
