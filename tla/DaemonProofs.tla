---------------------------- MODULE DaemonProofs ----------------------------
(***************************************************************************)
(* Theorems about Daemon, for any set of containers and targets and any    *)
(* number of notifiers: types, the memory invariant, the agreement of      *)
(* memory and file, and the promise that Daemon implements.                *)
(***************************************************************************)
EXTENDS DaemonPromise, WellFoundedInduction, TLAPS

-----------------------------------------------------------------------------
(* The store's operations.                                                 *)

\* Every update names a target.
LEMMA TargetType == \A u \in Update : TargetFor(u) \in Target
  BY StoreAssumption DEF Update, Target, TargetFor

\* No target is the mark of a missing entry.
LEMMA TargetIsEntry == NoEntry \notin Target
  BY StoreAssumption DEF Target

\* A recorded entry is the old one or the target of a notified update.
LEMMA RecordedEntry ==
  ASSUME NEW e \in Entries, NEW notified \in SUBSET Update, NEW k \in Keys
  PROVE  \/ Record(e, notified)[k] = e[k]
         \/ \E u \in notified : u.key = k /\ Record(e, notified)[k] = TargetFor(u)
  <1>1. CASE \E u \in notified : u.key = k
    <2> DEFINE w == CHOOSE u \in notified : u.key = k
    <2>1. w \in notified /\ w.key = k
      BY <1>1
    <2>2. Record(e, notified)[k] = TargetFor(w)
      BY <1>1 DEF Record
    <2> QED BY <2>1, <2>2
  <1>2. CASE ~ \E u \in notified : u.key = k
    BY <1>2 DEF Record
  <1> QED BY <1>1, <1>2

\* AfterPass leaves each key with no entry, its old entry or a target that was
\* notified for it.
LEMMA UpdatedEntry ==
  ASSUME NEW e \in Entries, NEW notified \in SUBSET Update,
         NEW keys \in SUBSET Keys, NEW prune \in BOOLEAN, NEW k \in Keys
  PROVE  LET new == Updated(e, keys, notified, prune)[k] IN
           \/ new = NoEntry
           \/ new = e[k]
           \/ \E u \in notified : u.key = k /\ new = TargetFor(u)
  <1>1. Prune(Record(e, notified), keys)[k] \in {NoEntry, Record(e, notified)[k]}
    BY DEF Prune
  <1> QED BY <1>1, RecordedEntry DEF Updated

\* AfterPass maps entries to entries.
LEMMA UpdatedType ==
  ASSUME NEW e \in Entries, NEW notified \in SUBSET Update,
         NEW keys \in SUBSET Keys, NEW prune \in BOOLEAN
  PROVE  Updated(e, keys, notified, prune) \in Entries
  <1> DEFINE new == Updated(e, keys, notified, prune)
  <1>1. new = [k \in Keys |-> new[k]]
    BY DEF Updated, Prune, Record
  <1>2. ASSUME NEW k \in Keys PROVE new[k] \in Target \cup {NoEntry}
    BY UpdatedEntry, TargetType DEF Entries
  <1> HIDE DEF new
  <1>3. new \in Entries
    BY <1>1, <1>2 DEF Entries
  <1> QED BY <1>3 DEF new

\* What is announced are pairs of a key and a target.
LEMMA PairsType ==
  ASSUME NEW updates \in SUBSET Update
  PROVE  Pairs(updates) \in SUBSET (Keys \X Target)
  <1>1. \A u \in Update : u.key \in Keys
    BY DEF Update
  <1> QED BY <1>1, TargetType DEF Pairs

\* The initial entries are entries.
LEMMA NoEntriesType == NoEntries \in Entries
  BY DEF NoEntries, Entries

-----------------------------------------------------------------------------
(* Types.                                                                  *)

\* There is a first notifier.
LEMMA FirstSlot == 1 \in Slots
  BY DaemonAssumption DEF Slots

\* The values of the pass variables after a reset.
LEMMA ForgetPassType ==
  ASSUME ForgetPass
  PROVE  /\ mode' \in {Scheduled, ForceCheck}
         /\ active' \subseteq Keys
         /\ found' \subseteq Update /\ batch' \subseteq Update
         /\ slot' \in Slots
         /\ canPrune' \in BOOLEAN /\ allOK' \in BOOLEAN
  BY FirstSlot DEF ForgetPass

\* The end of the process leaves every variable in its type.
LEMMA GoneType ==
  ASSUME TypeOK, Gone, UNCHANGED fileVars
  PROVE  TypeOK'
  BY ForgetPassType, NoEntriesType
     DEF TypeOK, Gone, ForgetPass, fileVars, Locations

\* Triggers keep the coordinator and the pass mode in their types.
LEMMA TriggerType ==
  ASSUME TypeOK, NEW m \in {Scheduled, ForceCheck}, NEW reset \in BOOLEAN,
         Trigger(m, reset)
  PROVE  /\ pc' \in Locations /\ mode' \in {Scheduled, ForceCheck}
         /\ queued' \in {NoMode, Scheduled, ForceCheck}
         /\ running' \in BOOLEAN /\ resetAfter' \in BOOLEAN
  BY DEF Trigger, QueuePending, TypeOK, Locations

\* Every step keeps every variable in its type.
LEMMA TypeStep ==
  ASSUME TypeOK, [Next]_vars
  PROVE  TypeOK'
  <1> USE DEF fileVars, inbox, coordVars, passVars
  <1>1. CASE Start
    <2>1. ASSUME NEW readable \in BOOLEAN PROVE Load(readable) \in Entries
      BY NoEntriesType DEF Load, TypeOK
    <2> QED BY <1>1, <2>1 DEF Start, TypeOK, Locations
  <1>2. CASE OpenSignals
    <2>1. CASE file = "absent"
      BY <1>2, <2>1, TriggerType DEF OpenSignals, TypeOK
    <2>2. CASE file # "absent"
      BY <1>2, <2>2 DEF OpenSignals, TypeOK, Locations
    <2> QED BY <2>1, <2>2
  <1>3. CASE Terminate
    BY <1>3 DEF Terminate, TypeOK
  <1>4. CASE Crash
    BY <1>4, GoneType DEF Crash
  <1>5. CASE ReceiveUsr1 \/ ReceiveUsr2 \/ TickFires
    <2>1. CASE ReceiveUsr1 BY <2>1 DEF ReceiveUsr1, TypeOK
    <2>2. CASE ReceiveUsr2 BY <2>2 DEF ReceiveUsr2, TypeOK
    <2>3. CASE TickFires BY <2>3 DEF TickFires, TypeOK
    <2> QED BY <1>5, <2>1, <2>2, <2>3
  <1>6. CASE SelectTick
    BY <1>6, TriggerType DEF SelectTick, TypeOK
  <1>7. CASE SelectUsr1
    BY <1>7, TriggerType DEF SelectUsr1, TypeOK
  <1>8. CASE SelectUsr2
    BY <1>8, TriggerType DEF SelectUsr2, TypeOK
  <1>9. CASE SelectDone \/ ListFails \/ ChecksCancelled \/ SaveFails
    BY <1>9, GoneType DEF SelectDone, ListFails, ChecksCancelled, SaveFails
  <1>10. CASE ListRunning
    BY <1>10 DEF ListRunning, TypeOK, Locations
  <1>11. CASE CheckContainers
    <2>1. found' \in SUBSET Update
      BY <1>11 DEF CheckContainers, Findings
    <2>2. batch' \in SUBSET Update
      BY <1>11, <2>1 DEF CheckContainers, Filter
    <2>3. slot' \in Slots
      BY <1>11, FirstSlot DEF CheckContainers
    <2> QED BY <1>11, <2>1, <2>2, <2>3 DEF CheckContainers, AfterNotify, TypeOK, Locations
  <1>12. CASE NotifyAccepted \/ NotifyRejected
    <2>1. \E ok \in BOOLEAN : NextSlot(ok)
      BY <1>12 DEF NotifyAccepted, NotifyRejected
    <2>2. slot' \in Slots /\ pc' \in Locations /\ allOK' \in BOOLEAN
      BY <2>1, DaemonAssumption DEF NextSlot, TypeOK, Slots, AfterNotify, Locations
    <2>3. PICK sent \in SUBSET batch :
            told' = [told EXCEPT ![slot] = @ \cup Pairs(sent)]
      BY <1>12 DEF NotifyAccepted, NotifyRejected
    <2>4. told' \in [Slots -> SUBSET (Keys \X Target)]
      <3>1. Pairs(sent) \in SUBSET (Keys \X Target)
        BY PairsType DEF TypeOK
      <3> QED BY <2>3, <3>1 DEF TypeOK
    <2>5. UNCHANGED <<fileVars, mem, cancelled, inbox, coordVars,
                      mode, active, canPrune, found, batch, blind>>
      BY <1>12 DEF NotifyAccepted, NotifyRejected
    <2> QED BY <2>2, <2>4, <2>5 DEF TypeOK
  <1>13. CASE RecordAndPrune
    <2>1. Notified \in SUBSET Update
      BY DEF Notified, TypeOK
    <2>2. mem' \in Entries
      BY <1>13, <2>1, UpdatedType DEF RecordAndPrune, TypeOK
    <2> QED BY <1>13, <2>2 DEF RecordAndPrune, TypeOK, Locations
  <1>14. CASE WriteTemp \/ Rename
    <2>1. CASE WriteTemp BY <2>1 DEF WriteTemp, TypeOK, Locations
    <2>2. CASE Rename BY <2>2 DEF Rename, TypeOK, Locations
    <2> QED BY <1>14, <2>1, <2>2
  <1>15. CASE EndCheck
    <2>1. mode' \in {Scheduled, ForceCheck} /\ active' \subseteq Keys
          /\ found' \subseteq Update /\ batch' \subseteq Update
          /\ slot' \in Slots /\ canPrune' \in BOOLEAN /\ allOK' \in BOOLEAN
      BY <1>15, FirstSlot DEF EndCheck, ForgetPass, TypeOK
    <2>2. tick' \in BOOLEAN /\ running' \in BOOLEAN /\ resetAfter' \in BOOLEAN
          /\ pc' \in Locations
      BY <1>15 DEF EndCheck, TickAfterReset, TypeOK, Locations
    <2> QED BY <1>15, <2>1, <2>2 DEF EndCheck, TypeOK
  <1>16. CASE UNCHANGED vars
    BY <1>16 DEF vars, TypeOK
  <1> QED
    BY <1>1, <1>2, <1>3, <1>4, <1>5, <1>6, <1>7, <1>8, <1>9, <1>10, <1>11,
       <1>12, <1>13, <1>14, <1>15, <1>16 DEF Next, Select, PassStep

\* Types hold at first.
LEMMA InitType == Init => TypeOK
  BY FirstSlot, NoEntriesType DEF Init, TypeOK, Idle, Locations

\* TypeOK holds in every reachable state of Daemon.
THEOREM TypeCorrect == Spec => []TypeOK
  <1>1. Init => TypeOK
    BY InitType
  <1>2. TypeOK /\ [Next]_vars => TypeOK'
    BY TypeStep
  <1>3. QED
    BY <1>1, <1>2, PTL DEF Spec

-----------------------------------------------------------------------------
(* The inductive invariant, in parts.                                      *)

InPass == pc \in {"listing", "checking", "notifying", "recording", "writing",
                  "renaming", "ending"}

\* The coordinator and the pass mode follow the place of the Run goroutine.
Coordination ==
  /\ queued = NoMode
  /\ running <=> InPass
  /\ ~InPass => mode = Scheduled
  /\ mode = ForceCheck =>
       /\ pc \in {"listing", "checking", "notifying", "ending"}
       /\ ~resetAfter /\ file # "absent"

\* Memory and file agree except while a save is under way.
FileAgrees ==
  /\ file # "whole" => disk = NoEntries
  /\ pc \in {"starting", "idle", "listing", "checking", "notifying", "recording",
             "ending"} /\ ~blind => mem = disk
  /\ pc \in {"idle", "ending"} => file # "absent"

\* The notifiers called so far have the whole batch, unless one has failed.
BatchTold ==
  /\ pc = "notifying" /\ allOK =>
       \A n \in Slots : n < slot => Pairs(batch) \subseteq told[n]
  /\ pc = "recording" /\ allOK =>
       \A n \in Slots : Pairs(batch) \subseteq told[n]

\* What the pass found, what it announces and what it remembers fit together.
PassConsistent ==
  /\ found \in Findings(active)
  /\ pc \in {"down", "starting", "idle", "listing", "checking"} => found = {}
  /\ pc \in {"notifying", "recording"} /\ mode = Scheduled => batch = Filter(mem, found)
  /\ pc \in {"writing", "renaming", "ending"} /\ mode = Scheduled =>
       \A u \in found : (mem[u.key] = TargetFor(u)) <=> (allOK \/ u \notin batch)
  /\ pc = "ending" /\ mode = Scheduled => mem = disk

\* What a save is about to drop belongs to containers that are gone.
PruneTrusted ==
  pc \in {"writing", "renaming"} =>
    \A k \in Keys : disk[k] # NoEntry /\ mem[k] = NoEntry =>
      blind \/ (canPrune /\ k \notin active)

IInv ==
  /\ TypeOK /\ RememberedWasTold
  /\ Coordination /\ FileAgrees /\ BatchTold /\ PassConsistent /\ PruneTrusted

\* The two modes differ in both of their parts.
LEMMA ModesDiffer == Scheduled # ForceCheck /\ Scheduled # NoMode /\ ForceCheck # NoMode
  BY DEF Scheduled, ForceCheck, NoMode

\* With an idle coordinator a trigger starts a check.
LEMMA TriggerStarts ==
  ASSUME Coordination, ~InPass, NEW m, NEW reset, Trigger(m, reset)
  PROVE  /\ pc' = "listing" /\ mode' = m /\ resetAfter' = reset
         /\ running' = TRUE /\ queued' = queued
  BY DEF Coordination, Trigger

\* With nothing queued the end of a check leads back to the loop.
LEMMA EndReturns ==
  ASSUME Coordination, EndCheck
  PROVE  /\ pc = "ending" /\ pc' = "idle" /\ running' = FALSE /\ queued' = NoMode
         /\ ForgetPass /\ tick' = TickAfterReset
         /\ UNCHANGED <<file, disk, mem, told, blind>>
  BY DEF Coordination, EndCheck, fileVars

\* Which place of the Run goroutine a call of a notifier leads to.
LEMMA NextSlotPlace ==
  ASSUME NEW ok \in BOOLEAN, NextSlot(ok), pc = "notifying", mode \in {Scheduled, ForceCheck}
  PROVE  \/ pc' = "notifying" /\ slot < NotifierCount /\ slot' = slot + 1
         \/ pc' = "recording" /\ mode = Scheduled /\ ~(slot < NotifierCount)
         \/ pc' = "ending" /\ mode = ForceCheck /\ ~(slot < NotifierCount)
  BY DEF NextSlot, AfterNotify, Scheduled, ForceCheck

\* Coordination is inductive.
LEMMA CoordinationStep ==
  ASSUME IInv, [Next]_vars
  PROVE  Coordination'
  <1> USE DEF IInv, fileVars, inbox, coordVars, passVars
  <1>1. CASE Start
    BY <1>1 DEF Start, Coordination, InPass
  <1>2. CASE OpenSignals
    <2>1. pc = "starting" /\ ~InPass
      BY <1>2 DEF OpenSignals, InPass
    <2>2. CASE file = "absent"
      BY <1>2, <2>1, <2>2, TriggerStarts, ModesDiffer DEF OpenSignals, Coordination, InPass
    <2>3. CASE file # "absent"
      BY <1>2, <2>1, <2>3 DEF OpenSignals, Coordination, InPass
    <2> QED BY <2>2, <2>3
  <1>3. CASE Terminate \/ ReceiveUsr1 \/ ReceiveUsr2 \/ TickFires
    <2>1. UNCHANGED <<pc, queued, running, mode, resetAfter, file>>
      BY <1>3 DEF Terminate, ReceiveUsr1, ReceiveUsr2, TickFires
    <2> QED BY <2>1 DEF Coordination, InPass
  <1>4. CASE Crash \/ SelectDone \/ ListFails \/ ChecksCancelled \/ SaveFails
    <2>1. Gone
      BY <1>4 DEF Crash, SelectDone, ListFails, ChecksCancelled, SaveFails
    <2> QED BY <2>1, ModesDiffer DEF Gone, ForgetPass, Coordination, InPass
  <1>5. CASE SelectTick \/ SelectUsr1
    <2>1. pc = "idle" /\ ~InPass /\ Trigger(Scheduled, TRUE)
      BY <1>5 DEF SelectTick, SelectUsr1, InPass
    <2> QED BY <2>1, TriggerStarts, ModesDiffer DEF Coordination, InPass
  <1>6. CASE SelectUsr2
    <2>1. pc = "idle" /\ ~InPass /\ Trigger(ForceCheck, FALSE) /\ file' = file
      BY <1>6 DEF SelectUsr2, InPass
    <2>2. file # "absent"
      BY <2>1 DEF FileAgrees
    <2> QED BY <2>1, <2>2, TriggerStarts, ModesDiffer DEF Coordination, InPass
  <1>7. CASE ListRunning
    BY <1>7 DEF ListRunning, Coordination, InPass
  <1>8. CASE CheckContainers
    <2>1. pc' \in {"notifying", AfterNotify}
      BY <1>8 DEF CheckContainers
    <2>2. mode = ForceCheck => pc' \in {"notifying", "ending"}
      BY <2>1 DEF AfterNotify, ForceCheck
    <2>3. pc' \in {"notifying", "recording", "ending"}
      BY <2>1 DEF AfterNotify
    <2> QED BY <1>8, <2>2, <2>3 DEF CheckContainers, Coordination, InPass
  <1>9. CASE NotifyAccepted \/ NotifyRejected
    <2>1. PICK ok \in BOOLEAN : NextSlot(ok)
      BY <1>9 DEF NotifyAccepted, NotifyRejected
    <2>2. pc = "notifying" /\ UNCHANGED <<queued, running, mode, resetAfter, file>>
      BY <1>9 DEF NotifyAccepted, NotifyRejected
    <2>3. pc' \in {"notifying", "recording", "ending"}
          /\ (mode = ForceCheck => pc' # "recording")
      BY <2>1, <2>2, NextSlotPlace, ModesDiffer DEF TypeOK
    <2> QED BY <2>2, <2>3 DEF Coordination, InPass
  <1>10. CASE RecordAndPrune \/ WriteTemp \/ Rename
    <2>1. pc \in {"recording", "writing", "renaming"}
          /\ pc' \in {"writing", "renaming", "ending"}
          /\ UNCHANGED <<queued, running, mode, resetAfter>>
      BY <1>10 DEF RecordAndPrune, WriteTemp, Rename
    <2>2. mode # ForceCheck
      BY <2>1 DEF Coordination
    <2> QED BY <2>1, <2>2 DEF Coordination, InPass
  <1>11. CASE EndCheck
    BY <1>11, EndReturns, ModesDiffer DEF Coordination, InPass, ForgetPass
  <1>12. CASE UNCHANGED vars
    BY <1>12 DEF vars, Coordination, InPass
  <1> QED
    BY <1>1, <1>2, <1>3, <1>4, <1>5, <1>6, <1>7, <1>8, <1>9, <1>10, <1>11, <1>12
       DEF Next, Select, PassStep

-----------------------------------------------------------------------------
(* Steps that leave the pass and the history alone, and steps that end the  *)
(* process, are dealt with together.                                        *)

Quiet ==
  \/ OpenSignals \/ Terminate \/ ReceiveUsr1 \/ ReceiveUsr2 \/ TickFires
  \/ SelectTick \/ SelectUsr1 \/ SelectUsr2
  \/ UNCHANGED vars

ProcessEnds == Crash \/ SelectDone \/ ListFails \/ ChecksCancelled \/ SaveFails

\* A step starts the process, is quiet, ends the process or belongs to a pass.
LEMMA NextCases ==
  ASSUME [Next]_vars
  PROVE  \/ Start \/ Quiet \/ ProcessEnds
         \/ ListRunning \/ CheckContainers \/ NotifyAccepted \/ NotifyRejected
         \/ RecordAndPrune \/ WriteTemp \/ Rename \/ EndCheck
  BY DEF Next, Select, PassStep, Quiet, ProcessEnds

\* A quiet step stays where it is or moves between waiting and listing.
LEMMA QuietStep ==
  ASSUME Coordination, Quiet
  PROVE  /\ UNCHANGED <<file, disk, mem, active, canPrune, found, batch, slot,
                         allOK, told, blind>>
         /\ \/ pc' = pc /\ mode' = mode
            \/ pc = "starting" /\ pc' = "idle" /\ file # "absent"
            \/ pc \in {"starting", "idle"} /\ pc' = "listing"
  <1> USE DEF fileVars, inbox, coordVars, passVars
  <1>1. CASE OpenSignals
    <2>1. ~InPass
      BY <1>1 DEF OpenSignals, InPass
    <2> QED BY <1>1, <2>1, TriggerStarts DEF OpenSignals
  <1>2. CASE Terminate \/ ReceiveUsr1 \/ ReceiveUsr2 \/ TickFires
    BY <1>2 DEF Terminate, ReceiveUsr1, ReceiveUsr2, TickFires
  <1>3. CASE SelectTick \/ SelectUsr1 \/ SelectUsr2
    <2>1. pc = "idle" /\ ~InPass
      BY <1>3 DEF SelectTick, SelectUsr1, SelectUsr2, InPass
    <2>2. pc' = "listing"
      BY <1>3, <2>1, TriggerStarts DEF SelectTick, SelectUsr1, SelectUsr2
    <2>3. UNCHANGED <<file, disk, mem, active, canPrune, found, batch, slot,
                      allOK, told, blind>>
      BY <1>3 DEF SelectTick, SelectUsr1, SelectUsr2
    <2> QED BY <2>1, <2>2, <2>3
  <1>4. CASE UNCHANGED vars
    BY <1>4 DEF vars
  <1> QED BY <1>1, <1>2, <1>3, <1>4 DEF Quiet

\* However the process ends, it leaves the file and the history alone.
LEMMA EndStep ==
  ASSUME ProcessEnds
  PROVE  /\ pc # "down" /\ Gone
         /\ UNCHANGED <<file, disk, told>>
  BY DEF ProcessEnds, Crash, SelectDone, ListFails, ChecksCancelled, SaveFails,
         Gone, fileVars

\* A call of a notifier tells that notifier part of the batch, and all of it
\* when the call succeeds.
LEMMA NotifyStep ==
  ASSUME TypeOK, NotifyAccepted \/ NotifyRejected
  PROVE  /\ pc = "notifying"
         /\ UNCHANGED <<file, disk, mem, mode, active, canPrune, found, batch, blind>>
         /\ \A n \in Slots : told[n] \subseteq told'[n]
         /\ \A n \in Slots : n # slot => told'[n] = told[n]
         /\ allOK' => allOK /\ Pairs(batch) \subseteq told'[slot]
         /\ \/ pc' = "notifying" /\ slot < NotifierCount /\ slot' = slot + 1
            \/ pc' = "recording" /\ mode = Scheduled /\ ~(slot < NotifierCount)
            \/ pc' = "ending" /\ mode = ForceCheck /\ ~(slot < NotifierCount)
  <1> USE DEF fileVars, inbox, coordVars, passVars
  <1>1. mode \in {Scheduled, ForceCheck} /\ slot \in Slots
    BY DEF TypeOK
  <1>2. told = [n \in Slots |-> told[n]]
    BY DEF TypeOK
  <1>3. CASE NotifyAccepted
    <2>1. NextSlot(TRUE) /\ pc = "notifying"
          /\ told' = [told EXCEPT ![slot] = @ \cup Pairs(batch)]
          /\ UNCHANGED <<file, disk, mem, mode, active, canPrune, found, batch, blind>>
      BY <1>3 DEF NotifyAccepted
    <2>2. allOK' => allOK
      BY <2>1 DEF NextSlot
    <2> QED BY <1>1, <1>2, <2>1, <2>2, NextSlotPlace
  <1>4. CASE NotifyRejected
    <2>1. NextSlot(FALSE) /\ pc = "notifying"
          /\ UNCHANGED <<file, disk, mem, mode, active, canPrune, found, batch, blind>>
      BY <1>4 DEF NotifyRejected
    <2>2. PICK sent \in SUBSET batch :
            told' = [told EXCEPT ![slot] = @ \cup Pairs(sent)]
      BY <1>4 DEF NotifyRejected
    <2>3. ~allOK'
      BY <2>1 DEF NextSlot
    <2> QED BY <1>1, <1>2, <2>1, <2>2, <2>3, NextSlotPlace
  <1> QED BY <1>3, <1>4

-----------------------------------------------------------------------------
(* What is remembered has been told.                                       *)

\* Every notifier called so far keeps having been told what its success stands
\* for.
LEMMA BatchToldStep ==
  ASSUME IInv, TypeOK', [Next]_vars
  PROVE  BatchTold'
  <1> USE DEF IInv, fileVars, inbox, coordVars, passVars
  <1>1. CASE Start
    BY <1>1 DEF Start, BatchTold
  <1>2. CASE Quiet
    BY <1>2, QuietStep DEF BatchTold, Pairs
  <1>3. CASE ProcessEnds
    BY <1>3, EndStep DEF Gone, BatchTold
  <1>4. CASE ListRunning \/ WriteTemp \/ Rename \/ RecordAndPrune
    BY <1>4 DEF ListRunning, WriteTemp, Rename, RecordAndPrune, BatchTold
  <1>5. CASE CheckContainers
    <2>1. slot' = 1 /\ told' = told
      BY <1>5 DEF CheckContainers
    <2>2. pc' = "recording" => batch' = {}
      BY <1>5 DEF CheckContainers
    <2>3. \A n \in Slots : ~(n < 1)
      BY DEF Slots
    <2>4. pc' = "recording" => Pairs(batch)' = {}
      BY <2>2 DEF Pairs
    <2> QED BY <2>1, <2>3, <2>4 DEF BatchTold
  <1>6. CASE NotifyAccepted \/ NotifyRejected
    <2>1. Pairs(batch)' = Pairs(batch)
      BY <1>6, NotifyStep DEF Pairs
    <2>2. slot \in Slots /\ NotifierCount \in Nat
      BY DaemonAssumption DEF TypeOK
    <2>3. ASSUME allOK', NEW n \in Slots, n = slot \/ n < slot
          PROVE  Pairs(batch) \subseteq told'[n]
      BY <1>6, <2>3, NotifyStep DEF BatchTold
    <2>4. \A n \in Slots : n < slot + 1 => n = slot \/ n < slot
      BY <2>2 DEF Slots
    <2>5. ~(slot < NotifierCount) => \A n \in Slots : n = slot \/ n < slot
      BY <2>2 DEF Slots
    <2>6. CASE pc' = "notifying"
      <3>1. slot' = slot + 1
        BY <1>6, <2>6, NotifyStep
      <3> QED BY <2>1, <2>3, <2>4, <2>6, <3>1 DEF BatchTold
    <2>7. CASE pc' = "recording"
      <3>1. ~(slot < NotifierCount)
        BY <1>6, <2>7, NotifyStep
      <3> QED BY <2>1, <2>3, <2>5, <2>7, <3>1 DEF BatchTold
    <2>8. CASE pc' \notin {"notifying", "recording"}
      BY <2>8 DEF BatchTold
    <2> QED BY <2>6, <2>7, <2>8
  <1>7. CASE EndCheck
    BY <1>7, EndReturns DEF BatchTold
  <1> QED
    BY <1>1, <1>2, <1>3, <1>4, <1>5, <1>6, <1>7, NextCases

\* No step puts into memory or on disk what some notifier was not told.
LEMMA RememberedStep ==
  ASSUME IInv, TypeOK', [Next]_vars
  PROVE  RememberedWasTold'
  <1> USE DEF IInv, fileVars, inbox, coordVars, passVars
  <1>1. CASE Start
    <2>1. \A readable \in BOOLEAN : Load(readable) \in {disk, NoEntries}
      BY DEF Load
    <2>2. mem' \in {disk, NoEntries} /\ UNCHANGED <<disk, told>>
      BY <1>1, <2>1 DEF Start
    <2> QED BY <2>2 DEF RememberedWasTold, NoEntries
  <1>2. CASE Quiet
    BY <1>2, QuietStep DEF RememberedWasTold
  <1>3. CASE ProcessEnds
    BY <1>3, EndStep DEF Gone, RememberedWasTold, NoEntries
  <1>4. CASE ListRunning \/ CheckContainers \/ WriteTemp
    BY <1>4 DEF ListRunning, CheckContainers, WriteTemp, RememberedWasTold
  <1>5. CASE NotifyAccepted \/ NotifyRejected
    BY <1>5, NotifyStep DEF RememberedWasTold
  <1>6. CASE RecordAndPrune
    <2>1. Notified \in SUBSET Update /\ active \in SUBSET Keys /\ canPrune \in BOOLEAN
          /\ mem \in Entries
      BY DEF Notified, TypeOK
    <2>2. ASSUME NEW u \in Notified, NEW n \in Slots
          PROVE  <<u.key, TargetFor(u)>> \in told[n]
      BY <1>6, <2>2 DEF RecordAndPrune, Notified, BatchTold, Pairs
    <2>3. ASSUME NEW k \in Keys, NEW n \in Slots, mem'[k] # NoEntry
          PROVE  <<k, mem'[k]>> \in told[n]
      <3>1. mem'[k] = Updated(mem, active, Notified, canPrune)[k]
        BY <1>6 DEF RecordAndPrune
      <3>2. \/ mem'[k] = mem[k]
            \/ \E u \in Notified : u.key = k /\ mem'[k] = TargetFor(u)
        BY <2>1, <2>3, <3>1, UpdatedEntry
      <3> QED BY <2>2, <2>3, <3>2 DEF RememberedWasTold
    <2>4. UNCHANGED <<disk, told>>
      BY <1>6 DEF RecordAndPrune
    <2> QED BY <2>3, <2>4 DEF RememberedWasTold
  <1>7. CASE Rename
    BY <1>7 DEF Rename, RememberedWasTold
  <1>8. CASE EndCheck
    BY <1>8, EndReturns DEF RememberedWasTold
  <1> QED
    BY <1>1, <1>2, <1>3, <1>4, <1>5, <1>6, <1>7, <1>8, NextCases

-----------------------------------------------------------------------------
(* Memory, file and pass stay consistent.                                  *)

\* At most one update of a batch found by a pass belongs to a key.
LEMMA FoundOnce ==
  ASSUME NEW keys \in SUBSET Keys, NEW F \in Findings(keys)
  PROVE  /\ F \in SUBSET Update
         /\ \A u \in F : u.key \in keys
         /\ \A u, v \in F : u.key = v.key => u = v
  BY DEF Findings

\* An update that Filter lets through differs from its stored entry, and one
\* that it suppresses equals it.
LEMMA FilterExact ==
  ASSUME NEW e \in Entries, NEW u \in Update
  PROVE  IsNew(e, u) <=> e[u.key] # TargetFor(u)
  <1>1. e[u.key] \in Target \cup {NoEntry} /\ TargetFor(u) \in Target
    BY TargetType DEF Entries, Update
  <1>2. ASSUME NEW s \in Target, NEW t \in Target
        PROVE  s = t <=> s.mode = t.mode /\ s.value = t.value
    BY DEF Target
  <1> QED BY <1>1, <1>2, TargetIsEntry DEF IsNew

\* Memory and file drift apart only inside a save or in a blind process.
LEMMA FileAgreesStep ==
  ASSUME IInv, [Next]_vars
  PROVE  FileAgrees'
  <1> USE DEF IInv, fileVars, inbox, coordVars, passVars
  <1>1. CASE Start
    <2>1. PICK readable \in BOOLEAN :
            mem' = Load(readable) /\ blind' = (~readable /\ file = "whole")
      BY <1>1 DEF Start
    <2>2. ~blind' => mem' = disk
      BY <2>1 DEF Load, FileAgrees
    <2>3. pc' = "starting" /\ UNCHANGED <<file, disk>>
      BY <1>1 DEF Start
    <2> QED BY <2>2, <2>3 DEF FileAgrees
  <1>2. CASE Quiet
    BY <1>2, QuietStep DEF FileAgrees
  <1>3. CASE ProcessEnds
    BY <1>3, EndStep DEF Gone, FileAgrees
  <1>4. CASE ListRunning
    BY <1>4 DEF ListRunning, FileAgrees
  <1>5. CASE CheckContainers
    <2>1. mode = Scheduled => pc' # "ending"
      BY <1>5 DEF CheckContainers, AfterNotify, Scheduled
    <2>2. mode = ForceCheck => file # "absent"
      BY DEF Coordination
    <2>3. mode \in {Scheduled, ForceCheck}
      BY DEF TypeOK
    <2>4. pc = "checking" /\ pc' \in {"notifying", "recording", "ending"}
          /\ UNCHANGED <<file, disk, mem, blind>>
      BY <1>5 DEF CheckContainers, AfterNotify
    <2> QED BY <2>1, <2>2, <2>3, <2>4 DEF FileAgrees
  <1>6. CASE NotifyAccepted \/ NotifyRejected
    <2>1. mode = ForceCheck => file # "absent"
      BY DEF Coordination
    <2> QED BY <1>6, <2>1, NotifyStep DEF FileAgrees
  <1>7. CASE RecordAndPrune \/ WriteTemp
    BY <1>7 DEF RecordAndPrune, WriteTemp, FileAgrees
  <1>8. CASE Rename
    BY <1>8 DEF Rename, FileAgrees
  <1>9. CASE EndCheck
    BY <1>9, EndReturns DEF FileAgrees
  <1> QED
    BY <1>1, <1>2, <1>3, <1>4, <1>5, <1>6, <1>7, <1>8, <1>9, NextCases

\* After AfterPass the updates of the pass that memory holds are those it
\* suppressed and, when every notifier accepted the batch, those it announced.
LEMMA RecordIsExact ==
  ASSUME NEW e \in Entries, NEW keys \in SUBSET Keys, NEW F \in Findings(keys),
         NEW ok \in BOOLEAN, NEW prune \in BOOLEAN, NEW u \in F
  PROVE  LET B == Filter(e, F)
             new == Updated(e, keys, IF ok THEN B ELSE {}, prune)
         IN  (new[u.key] = TargetFor(u)) <=> (ok \/ u \notin B)
  <1> DEFINE B == Filter(e, F)
             N == IF ok THEN B ELSE {}
             new == Updated(e, keys, N, prune)
  <1>1. u \in Update /\ u.key \in keys /\ u.key \in Keys
    BY FoundOnce
  <1>2. B \subseteq F /\ N \subseteq B
    BY DEF Filter
  <1>3. new[u.key] = Record(e, N)[u.key]
    BY <1>1 DEF Updated, Prune
  <1>4. u \in B <=> e[u.key] # TargetFor(u)
    BY <1>1, FilterExact DEF Filter
  <1>5. CASE u \in N
    <2> DEFINE w == CHOOSE x \in N : x.key = u.key
    <2>1. w \in N /\ w.key = u.key
      BY <1>5
    <2>2. w = u
      BY <2>1, <1>2, FoundOnce
    <2>3. Record(e, N)[u.key] = TargetFor(w)
      BY <1>1, <1>5 DEF Record
    <2>4. ok
      BY <1>5
    <2> QED BY <1>3, <2>2, <2>3, <2>4
  <1>6. CASE u \notin N
    <2>1. ~ \E x \in N : x.key = u.key
      BY <1>2, <1>6, FoundOnce
    <2>2. Record(e, N)[u.key] = e[u.key]
      BY <1>1, <2>1 DEF Record
    <2>3. ok => u \notin B
      BY <1>6
    <2> QED BY <1>3, <1>4, <2>2, <2>3
  <1> QED BY <1>5, <1>6

\* A step keeps the batch of a pass and the store it was filtered with together.
LEMMA PassConsistentStep ==
  ASSUME IInv, TypeOK', [Next]_vars
  PROVE  PassConsistent'
  <1> USE DEF IInv, fileVars, inbox, coordVars, passVars
  <1>0. {} \in Findings({})
    BY DEF Findings
  <1>1. CASE Start
    BY <1>1 DEF Start, PassConsistent, Findings
  <1>2. CASE Quiet
    BY <1>2, QuietStep DEF PassConsistent, Findings, Filter, IsNew
  <1>3. CASE ProcessEnds
    BY <1>0, <1>3, EndStep DEF Gone, ForgetPass, PassConsistent, Findings
  <1>4. CASE ListRunning
    <2>1. found = {}
      BY <1>4 DEF ListRunning, PassConsistent
    <2> QED BY <1>4, <2>1 DEF ListRunning, PassConsistent, Findings
  <1>5. CASE CheckContainers
    <2>1. found' \in Findings(active) /\ active' = active /\ mem' = mem /\ mode' = mode
          /\ pc' \in {"notifying", AfterNotify}
          /\ batch' = IF mode.suppress THEN Filter(mem, found') ELSE found'
      BY <1>5 DEF CheckContainers
    <2>2. mode = Scheduled =>
            batch' = Filter(mem, found') /\ pc' \in {"notifying", "recording"}
      BY <2>1 DEF Scheduled, AfterNotify
    <2>3. pc' \in {"notifying", "recording", "ending"}
      BY <2>1 DEF AfterNotify
    <2> QED BY <2>1, <2>2, <2>3 DEF PassConsistent, Findings, Filter, IsNew
  <1>6. CASE NotifyAccepted \/ NotifyRejected
    <2>1. mode' = Scheduled => pc' # "ending"
      BY <1>6, NotifyStep, ModesDiffer
    <2> QED BY <1>6, <2>1, NotifyStep DEF PassConsistent, Findings, Filter, IsNew
  <1>7. CASE RecordAndPrune
    <2>1. /\ pc = "recording" /\ pc' = "writing"
          /\ mem' = Updated(mem, active, Notified, canPrune)
          /\ UNCHANGED <<found, active, batch, allOK, mode>>
      BY <1>7 DEF RecordAndPrune
    <2>2. mode = Scheduled => batch = Filter(mem, found)
      BY <2>1 DEF PassConsistent
    <2>3. mem \in Entries /\ active \in SUBSET Keys /\ allOK \in BOOLEAN
          /\ canPrune \in BOOLEAN /\ found \in Findings(active)
      BY DEF TypeOK, PassConsistent
    <2>4. ASSUME mode = Scheduled, NEW u \in found
          PROVE  (mem'[u.key] = TargetFor(u)) <=> (allOK \/ u \notin batch)
      BY <2>1, <2>2, <2>3, <2>4, RecordIsExact DEF Notified
    <2> QED BY <2>1, <2>3, <2>4 DEF PassConsistent, Findings
  <1>8. CASE WriteTemp
    BY <1>8 DEF WriteTemp, PassConsistent, Findings
  <1>9. CASE Rename
    BY <1>9 DEF Rename, PassConsistent, Findings
  <1>10. CASE EndCheck
    BY <1>0, <1>10, EndReturns DEF ForgetPass, PassConsistent, Findings
  <1> QED
    BY <1>1, <1>2, <1>3, <1>4, <1>5, <1>6, <1>7, <1>8, <1>9, <1>10, NextCases

\* A step drops an entry from memory only for a container that is gone.
LEMMA PruneTrustedStep ==
  ASSUME IInv, [Next]_vars
  PROVE  PruneTrusted'
  <1> USE DEF IInv, fileVars, inbox, coordVars, passVars
  <1>1. CASE RecordAndPrune
    <2>1. /\ pc = "recording" /\ mem' = Updated(mem, active, Notified, canPrune)
          /\ UNCHANGED <<disk, blind, canPrune, active>>
      BY <1>1 DEF RecordAndPrune
    <2>2. blind \/ mem = disk
      BY <2>1 DEF FileAgrees
    <2>3. ASSUME NEW k \in Keys, mem[k] # NoEntry, mem'[k] = NoEntry
          PROVE  canPrune /\ k \notin active
      <3>1. Notified \in SUBSET Update /\ mem \in Entries
        BY DEF Notified, TypeOK
      <3>2. Record(mem, Notified)[k] # NoEntry
        BY <3>1, <2>3, RecordedEntry, TargetType, TargetIsEntry
      <3> QED BY <2>1, <2>3, <3>2 DEF Updated, Prune
    <2> QED BY <2>1, <2>2, <2>3 DEF PruneTrusted
  <1>2. CASE WriteTemp
    BY <1>2 DEF WriteTemp, PruneTrusted
  <1>3. CASE Start \/ ListRunning \/ CheckContainers \/ Rename
    BY <1>3 DEF Start, ListRunning, CheckContainers, AfterNotify, Rename, PruneTrusted
  <1>4. CASE Quiet
    BY <1>4, QuietStep DEF PruneTrusted
  <1>5. CASE ProcessEnds
    BY <1>5, EndStep DEF Gone, PruneTrusted
  <1>6. CASE NotifyAccepted \/ NotifyRejected
    BY <1>6, NotifyStep DEF PruneTrusted
  <1>7. CASE EndCheck
    BY <1>7, EndReturns DEF PruneTrusted
  <1> QED
    BY <1>1, <1>2, <1>3, <1>4, <1>5, <1>6, <1>7, NextCases

\* The inductive invariant holds in every reachable state.
THEOREM Invariance == Spec => []IInv
  <1>1. Init => IInv
    <2> QED
      BY InitType, ModesDiffer
         DEF Init, Idle, IInv, RememberedWasTold, Coordination, InPass, FileAgrees,
             BatchTold, PassConsistent, PruneTrusted, NoEntries, Findings
  <1>2. IInv /\ [Next]_vars => IInv'
    <2> SUFFICES ASSUME IInv, [Next]_vars PROVE IInv'
      OBVIOUS
    <2>1. TypeOK'
      BY TypeStep DEF IInv
    <2> QED
      BY <2>1, RememberedStep, CoordinationStep, FileAgreesStep, BatchToldStep,
         PassConsistentStep, PruneTrustedStep DEF IInv
  <1>3. QED
    BY <1>1, <1>2, PTL DEF Spec

\* No target is remembered that some notifier has not accepted.
THEOREM RememberedImpliesTold == Spec => []RememberedWasTold
  BY Invariance, PTL DEF IInv

\* A scheduled pass never announces what the state file holds.
THEOREM NoNewsRepeated == Spec => []NoRepeatedNews
  <1>1. IInv => NoRepeatedNews
    <2> SUFFICES ASSUME IInv, pc = "notifying", mode.suppress, ~blind, NEW u \in batch
                 PROVE  disk[u.key] # TargetFor(u)
      BY DEF NoRepeatedNews
    <2>1. mode = Scheduled
      BY DEF IInv, TypeOK, ForceCheck
    <2>2. u \in Update /\ u \in Filter(mem, found)
      BY <2>1 DEF IInv, TypeOK, PassConsistent
    <2>3. mem[u.key] # TargetFor(u)
      BY <2>2, FilterExact DEF Filter, IInv, TypeOK
    <2>4. mem = disk
      BY DEF IInv, FileAgrees
    <2> QED BY <2>3, <2>4
  <1> QED BY <1>1, Invariance, PTL

\* A saved pass has on disk exactly what was suppressed or accepted by all.
THEOREM SavedExactly == Spec => []SavedPassIsExact
  <1>1. IInv => SavedPassIsExact
    <2> SUFFICES ASSUME IInv, pc = "ending", mode.updateState
                 PROVE  \A u \in found :
                          (disk[u.key] = TargetFor(u)) <=> (allOK \/ u \notin batch)
      BY DEF SavedPassIsExact
    <2>1. mode = Scheduled
      BY DEF IInv, TypeOK, ForceCheck
    <2> QED BY <2>1 DEF IInv, PassConsistent
  <1> QED BY <1>1, Invariance, PTL

\* Waiting in the loop, memory and state file agree.
THEOREM WaitingAgrees == Spec => []WaitingMatchesDisk
  <1>1. IInv => WaitingMatchesDisk
    BY DEF IInv, FileAgrees, WaitingMatchesDisk
  <1> QED BY <1>1, Invariance, PTL

\* The run coordinator is at rest between passes.
THEOREM CoordinatorRests == Spec => []CoordinatorAtRest
  <1>1. IInv => CoordinatorAtRest
    BY DEF IInv, Coordination, InPass, CoordinatorAtRest
  <1> QED BY <1>1, Invariance, PTL

\* A process crash never leaves a state file that cannot be loaded.
THEOREM FileStaysWhole == Spec => HistoryFileStaysWhole
  <1>1. IInv /\ [Next]_vars => (file = "whole" => file' = "whole")
    <2> SUFFICES ASSUME IInv, [Next]_vars PROVE file' \in {file, "whole"}
      OBVIOUS
    <2> USE DEF IInv, fileVars
    <2>1. CASE Start \/ ListRunning \/ CheckContainers \/ RecordAndPrune
               \/ WriteTemp \/ Rename
      BY <2>1 DEF Start, ListRunning, CheckContainers, RecordAndPrune, WriteTemp, Rename
    <2> QED BY <2>1, NextCases, QuietStep, EndStep, NotifyStep, EndReturns
  <1>2. (file = "whole" => file' = "whole") => [file = "whole" => file' = "whole"]_vars
    OBVIOUS
  <1> QED BY <1>1, <1>2, Invariance, PTL DEF Spec, HistoryFileStaysWhole

\* Only containers that a trusted listing did not hold lose their entries.
THEOREM PrunedAreGone == Spec => OnlyGoneContainersPruned
  <1> DEFINE Trusted == \A k \in Keys : disk[k] # NoEntry /\ disk'[k] = NoEntry =>
                          blind \/ (canPrune /\ k \notin active)
  <1>1. IInv /\ [Next]_vars => Trusted
    <2> SUFFICES ASSUME IInv, [Next]_vars PROVE Trusted
      OBVIOUS
    <2> USE DEF IInv, fileVars
    <2>1. CASE Rename
      BY <2>1 DEF Rename, PruneTrusted
    <2>2. CASE Start \/ ListRunning \/ CheckContainers \/ RecordAndPrune \/ WriteTemp
      BY <2>2 DEF Start, ListRunning, CheckContainers, RecordAndPrune, WriteTemp
    <2> QED BY <2>1, <2>2, NextCases, QuietStep, EndStep, NotifyStep, EndReturns
  <1>2. Trusted => [Trusted]_vars
    OBVIOUS
  <1> QED BY <1>1, <1>2, Invariance, PTL DEF Spec, OnlyGoneContainersPruned

\* A force check that goes on keeps a waiting tick.
LEMMA ForceKeepsTick ==
  ASSUME IInv, [Next]_vars, mode = ForceCheck, pc' # "down", tick
  PROVE  tick'
  <1> USE DEF IInv, fileVars, inbox, coordVars, passVars
  <1>1. pc \in {"listing", "checking", "notifying", "ending"} /\ ~resetAfter
    BY DEF Coordination
  <1>2. CASE Quiet
    <2>1. CASE Terminate \/ ReceiveUsr1 \/ ReceiveUsr2 \/ TickFires
      BY <2>1 DEF Terminate, ReceiveUsr1, ReceiveUsr2, TickFires
    <2>2. CASE OpenSignals \/ SelectTick \/ SelectUsr1 \/ SelectUsr2
      BY <1>1, <2>2 DEF OpenSignals, SelectTick, SelectUsr1, SelectUsr2
    <2>3. CASE UNCHANGED vars
      BY <2>3 DEF vars
    <2> QED BY <1>2, <2>1, <2>2, <2>3 DEF Quiet
  <1>3. CASE ListRunning \/ CheckContainers \/ NotifyAccepted \/ NotifyRejected
    BY <1>3 DEF ListRunning, CheckContainers, NotifyAccepted, NotifyRejected
  <1>4. CASE Start \/ RecordAndPrune \/ WriteTemp \/ Rename
    BY <1>1, <1>4 DEF Start, RecordAndPrune, WriteTemp, Rename
  <1>5. CASE ProcessEnds
    BY <1>5, EndStep DEF Gone
  <1>6. CASE EndCheck
    BY <1>1, <1>6, EndReturns DEF TickAfterReset
  <1> QED BY <1>2, <1>3, <1>4, <1>5, <1>6, NextCases

\* A force check changes neither memory, file nor schedule.
THEOREM ForceCheckStateless == Spec => ForceCheckLeavesNoTrace
  <1> DEFINE NoTrace == mode = ForceCheck =>
                          /\ UNCHANGED fileVars
                          /\ pc' # "down" => mem' = mem /\ (tick => tick')
  <1>1. IInv /\ [Next]_vars => NoTrace
    <2> SUFFICES ASSUME IInv, [Next]_vars, mode = ForceCheck
                 PROVE  UNCHANGED <<file, disk>> /\ (pc' # "down" => mem' = mem)
      BY ForceKeepsTick DEF fileVars
    <2> USE DEF IInv, fileVars
    <2>1. pc \in {"listing", "checking", "notifying", "ending"}
      BY DEF Coordination
    <2>2. CASE ListRunning \/ CheckContainers
      BY <2>2 DEF ListRunning, CheckContainers
    <2>3. CASE Start \/ RecordAndPrune \/ WriteTemp \/ Rename
      BY <2>1, <2>3 DEF Start, RecordAndPrune, WriteTemp, Rename
    <2>4. CASE ProcessEnds
      BY <2>4, EndStep DEF Gone
    <2> QED BY <2>2, <2>3, <2>4, NextCases, QuietStep, NotifyStep, EndReturns
  <1>2. NoTrace => [NoTrace]_vars
    OBVIOUS
  <1> QED BY <1>1, <1>2, Invariance, PTL DEF Spec, ForceCheckLeavesNoTrace

-----------------------------------------------------------------------------
(* What the end of a check stands for.                                      *)

\* A check that ends with no failed delivery leaves no notifier untold of
\* anything it found, be it in this check or, suppressed now, in an earlier one
\* or before a restart.
EndedMeansTold ==
  pc = "ending" /\ allOK =>
    \A u \in found, n \in Slots : <<u.key, TargetFor(u)>> \in told[n]

\* A force check suppresses nothing, and its end follows the last notifier.
ForcedBatch ==
  mode = ForceCheck =>
    /\ pc \in {"notifying", "ending"} => batch = found
    /\ pc = "ending" /\ allOK => \A n \in Slots : Pairs(batch) \subseteq told[n]

\* ForcedBatch is inductive beside the invariant.
LEMMA ForcedBatchStep ==
  ASSUME IInv, IInv', ForcedBatch, [Next]_vars
  PROVE  ForcedBatch'
  <1> USE DEF fileVars, inbox, coordVars, passVars
  <1>1. CASE Start \/ RecordAndPrune \/ WriteTemp \/ Rename
    <2>1. (mode' = mode /\ pc' \notin {"notifying", "ending"}) \/ Rename
      BY <1>1 DEF Start, RecordAndPrune, WriteTemp
    <2>2. Rename => mode # ForceCheck /\ mode' = mode
      BY DEF Rename, IInv, Coordination
    <2> QED BY <2>1, <2>2 DEF ForcedBatch
  <1>2. CASE Quiet
    <2>1. UNCHANGED <<found, batch, allOK, told>>
      BY <1>2, QuietStep DEF IInv
    <2>2. pc' \in {"notifying", "ending"} => pc' = pc /\ mode' = mode
      BY <1>2, QuietStep DEF IInv
    <2> QED BY <2>1, <2>2 DEF ForcedBatch, Pairs
  <1>3. CASE ProcessEnds
    BY <1>3, EndStep DEF Gone, ForcedBatch
  <1>4. CASE ListRunning
    BY <1>4 DEF ListRunning, ForcedBatch
  <1>5. CASE CheckContainers
    <2>1. /\ mode' = mode /\ told' = told
          /\ batch' = IF mode.suppress THEN Filter(mem, found') ELSE found'
          /\ pc' = "ending" => batch' = {} \/ mode # ForceCheck
      BY <1>5 DEF CheckContainers
    <2>2. batch' = {} => Pairs(batch)' = {}
      BY DEF Pairs
    <2> QED BY <2>1, <2>2 DEF ForcedBatch, ForceCheck
  <1>6. CASE NotifyAccepted \/ NotifyRejected
    <2>1. /\ pc = "notifying" /\ UNCHANGED <<mode, found, batch>>
          /\ \A n \in Slots : told[n] \subseteq told'[n]
          /\ allOK' => allOK /\ Pairs(batch) \subseteq told'[slot]
      BY <1>6, NotifyStep DEF IInv
    <2>2. pc' = "ending" => ~(slot < NotifierCount)
      BY <1>6, NotifyStep DEF IInv
    <2>3. slot \in Slots /\ NotifierCount \in Nat
      BY DaemonAssumption DEF IInv, TypeOK
    <2>4. ~(slot < NotifierCount) => \A n \in Slots : n = slot \/ n < slot
      BY <2>3 DEF Slots
    <2>5. ASSUME pc' = "ending", allOK', NEW n \in Slots
          PROVE  Pairs(batch) \subseteq told'[n]
      BY <2>1, <2>2, <2>4, <2>5 DEF IInv, BatchTold
    <2>6. Pairs(batch)' = Pairs(batch)
      BY <2>1 DEF Pairs
    <2> QED BY <2>1, <2>5, <2>6 DEF ForcedBatch
  <1>7. CASE EndCheck
    BY <1>7, EndReturns DEF IInv, ForcedBatch
  <1> QED BY <1>1, <1>2, <1>3, <1>4, <1>5, <1>6, <1>7, NextCases

\* The end of a check without a failure means that everything was told.  For a
\* scheduled check this is the store's exactness and its honesty taken together.
THEOREM NothingFoundIsLost == Spec => []EndedMeansTold
  <1>1. Init => ForcedBatch
    BY ModesDiffer DEF Init, Idle, ForcedBatch
  <1>2. IInv /\ IInv' /\ ForcedBatch /\ [Next]_vars => ForcedBatch'
    BY ForcedBatchStep
  <1>3. IInv /\ ForcedBatch => EndedMeansTold
    <2> SUFFICES ASSUME IInv, ForcedBatch, pc = "ending", allOK, NEW u \in found, NEW n \in Slots
                 PROVE  <<u.key, TargetFor(u)>> \in told[n]
      BY DEF EndedMeansTold
    <2>1. u \in Update /\ u.key \in Keys /\ TargetFor(u) # NoEntry
      <3>1. u \in Update
        BY DEF IInv, TypeOK
      <3> QED BY <3>1, TargetType, TargetIsEntry DEF Update
    <2>2. CASE mode = Scheduled
      <3>1. mem[u.key] = TargetFor(u)
        BY <2>2 DEF IInv, PassConsistent
      <3> QED BY <2>1, <3>1 DEF IInv, RememberedWasTold
    <2>3. CASE mode = ForceCheck
      BY <2>3 DEF ForcedBatch, Pairs
    <2> QED BY <2>2, <2>3 DEF IInv, TypeOK
  <1> QED BY <1>1, <1>2, <1>3, Invariance, PTL DEF Spec

-----------------------------------------------------------------------------
(* What becomes of a signal, of a tick and of a pass.                       *)

\* A later pass with the same findings announces again what was not accepted by
\* every notifier, and nothing else: AfterPass and Filter are each other's
\* complement, for every store, batch and pruning.
THEOREM NextPassSeesTheRest ==
  ASSUME NEW e \in Entries, NEW keys \in SUBSET Keys, NEW F \in Findings(keys),
         NEW ok \in BOOLEAN, NEW prune \in BOOLEAN
  PROVE  LET announced == Filter(e, F)
             after == Updated(e, keys, IF ok THEN announced ELSE {}, prune)
         IN  Filter(after, F) = IF ok THEN {} ELSE announced
  <1> DEFINE announced == Filter(e, F)
             after == Updated(e, keys, IF ok THEN announced ELSE {}, prune)
  <1>1. announced \in SUBSET F /\ F \in SUBSET Update
    BY FoundOnce DEF Filter
  <1>2. after \in Entries
    <2>1. (IF ok THEN announced ELSE {}) \in SUBSET Update
      BY <1>1
    <2> QED BY <2>1, UpdatedType
  <1>3. ASSUME NEW u \in F
        PROVE  (after[u.key] = TargetFor(u)) <=> (ok \/ u \notin announced)
    BY RecordIsExact
  <1> HIDE DEF announced, after
  <1>4. ASSUME NEW u \in F
        PROVE  IsNew(after, u) <=> ~ok /\ u \in announced
    BY <1>1, <1>2, <1>3, FilterExact
  <1>5. Filter(after, F) = IF ok THEN {} ELSE announced
    BY <1>1, <1>4 DEF Filter
  <1> QED BY <1>5 DEF announced, after

\* The coordinator's queue stays empty: triggers are drained only between
\* checks, by the goroutine that runs them.
THEOREM QueueNeverUsed == Spec => [](queued = NoMode)
  <1>1. IInv => queued = NoMode
    BY DEF IInv, Coordination
  <1> QED BY <1>1, Invariance, PTL

\* A signal leaves its channel only for a check of its kind or with the process,
\* a tick also when the end of a scheduled check resets the interval.
Answered ==
  /\ usr1 /\ ~usr1' => pc' = "down" \/ (pc' = "listing" /\ mode' = Scheduled)
  /\ usr2 /\ ~usr2' => pc' = "down" \/ (pc' = "listing" /\ mode' = ForceCheck)
  /\ tick /\ ~tick' => \/ pc' = "down" \/ (pc' = "listing" /\ mode' = Scheduled)
                       \/ (~Cron /\ pc = "ending" /\ mode = Scheduled)

\* Each step answers what it takes from a channel.
LEMMA AnsweredStep ==
  ASSUME IInv, [Next]_vars
  PROVE  Answered
  <1> USE DEF IInv, fileVars, inbox, coordVars, passVars
  <1>1. CASE Quiet
    <2>1. CASE OpenSignals \/ Terminate \/ ReceiveUsr1 \/ ReceiveUsr2 \/ TickFires
      <3>1. /\ usr1' = usr1 \/ usr1' = TRUE
            /\ usr2' = usr2 \/ usr2' = TRUE
            /\ tick' = tick \/ tick' = TRUE
        BY <2>1 DEF OpenSignals, Terminate, ReceiveUsr1, ReceiveUsr2, TickFires
      <3>2. (usr1 => usr1') /\ (usr2 => usr2') /\ (tick => tick')
        BY <3>1 DEF TypeOK
      <3> QED BY <3>2, Zenon DEF Answered
    <2>2. CASE SelectTick \/ SelectUsr1
      <3>0. ~InPass /\ Trigger(Scheduled, TRUE)
        BY <2>2 DEF SelectTick, SelectUsr1, InPass
      <3>1. pc' = "listing" /\ mode' = Scheduled /\ usr2' = usr2
        BY <2>2, <3>0, TriggerStarts DEF SelectTick, SelectUsr1
      <3> QED BY <3>1 DEF Answered
    <2>3. CASE SelectUsr2
      <3>1. pc' = "listing" /\ mode' = ForceCheck /\ UNCHANGED <<usr1, tick>>
        BY <2>3, TriggerStarts DEF SelectUsr2, InPass
      <3> QED BY <3>1 DEF Answered
    <2>4. CASE UNCHANGED vars
      BY <2>4 DEF vars, Answered
    <2> QED BY <1>1, <2>1, <2>2, <2>3, <2>4 DEF Quiet
  <1>2. CASE ProcessEnds
    BY <1>2, EndStep DEF Gone, Answered
  <1>3. CASE EndCheck
    <2>1. pc = "ending" /\ UNCHANGED <<usr1, usr2>> /\ tick' = TickAfterReset
      BY <1>3, EndReturns DEF EndCheck
    <2>2. resetAfter => mode = Scheduled
      BY DEF Coordination, TypeOK
    <2>3. tick /\ ~tick' => resetAfter /\ ~Cron
      BY <2>1 DEF TickAfterReset
    <2>4. (usr1 => usr1') /\ (usr2 => usr2')
      BY <2>1
    <2> QED BY <2>1, <2>2, <2>3, <2>4, Zenon DEF Answered
  <1>4. CASE Start \/ ListRunning \/ CheckContainers
    BY <1>4 DEF Start, ListRunning, CheckContainers, Answered
  <1>5. CASE NotifyAccepted \/ NotifyRejected \/ RecordAndPrune \/ WriteTemp \/ Rename
    <2>1. UNCHANGED <<usr1, usr2, tick>>
      BY <1>5 DEF NotifyAccepted, NotifyRejected, RecordAndPrune, WriteTemp, Rename
    <2> QED BY <2>1, Zenon DEF Answered
  <1> QED BY <1>1, <1>2, <1>3, <1>4, <1>5, NextCases

\* No signal is dropped while the process lives, whatever the loop is doing when
\* it arrives; with a cron schedule no tick is either.
THEOREM SignalNeverDropped == Spec => [][Answered]_vars
  <1>1. Answered => [Answered]_vars
    OBVIOUS
  <1> QED BY <1>1, AnsweredStep, Invariance, PTL DEF Spec

\* How far a pass is from its end: the phases that are left, and the notifiers
\* that are left in the one that calls them.
Phase(place) ==
  CASE place = "listing"   -> 7
    [] place = "checking"  -> 6
    [] place = "notifying" -> 5
    [] place = "recording" -> 4
    [] place = "writing"   -> 3
    [] place = "renaming"  -> 2
    [] place = "ending"    -> 1
    [] OTHER               -> 0

PassLeft == <<Phase(pc), NotifierCount - slot>>

PassBelow == LexPairOrdering(OpToRel(<, Nat), OpToRel(<, Nat), Nat, Nat)

\* The measure of a pass is a pair of numbers.
LEMMA PassLeftType ==
  ASSUME TypeOK
  PROVE  PassLeft \in Nat \X Nat
  <1>1. Phase(pc) \in Nat
    BY DEF Phase, TypeOK, Locations
  <1>2. NotifierCount - slot \in Nat
    BY DaemonAssumption DEF TypeOK, Slots
  <1> QED BY <1>1, <1>2 DEF PassLeft

\* A pass that moves to a later phase, or to the next notifier, has less left.
LEMMA PassShrinks ==
  ASSUME TypeOK, TypeOK',
         \/ Phase(pc') < Phase(pc)
         \/ pc' = pc /\ slot' = slot + 1
  PROVE  <<PassLeft', PassLeft>> \in PassBelow
  <1>1. PassLeft \in Nat \X Nat /\ PassLeft' \in Nat \X Nat
    <2>1. Phase(pc') \in Nat
      BY DEF Phase, TypeOK, Locations
    <2>2. \A s \in Slots : NotifierCount - s \in Nat
      BY DaemonAssumption DEF Slots
    <2>3. NotifierCount - slot' \in Nat
      BY <2>2 DEF TypeOK
    <2> QED BY <2>1, <2>3, PassLeftType DEF PassLeft
  <1>2. CASE Phase(pc') < Phase(pc)
    BY <1>1, <1>2 DEF PassBelow, LexPairOrdering, OpToRel, PassLeft
  <1>3. CASE pc' = pc /\ slot' = slot + 1
    <2>1. NotifierCount - slot' < NotifierCount - slot
      <3>1. slot \in Nat /\ NotifierCount \in Nat
        BY DaemonAssumption DEF TypeOK, Slots
      <3> QED BY <1>3, <3>1
    <2> QED BY <1>1, <1>3, <2>1 DEF PassBelow, LexPairOrdering, OpToRel, PassLeft
  <1> QED BY <1>2, <1>3

\* The phases come in the order of the code.
LEMMA PhaseOrder ==
  /\ Phase("down") = 0 /\ Phase("idle") = 0 /\ Phase("ending") = 1
  /\ Phase("renaming") = 2 /\ Phase("writing") = 3 /\ Phase("recording") = 4
  /\ Phase("notifying") = 5 /\ Phase("checking") = 6 /\ Phase("listing") = 7
  BY DEF Phase

\* Every step of a pass brings it nearer to its end; any other step during a
\* pass leaves it where it is or ends the process.
LEMMA PassShrinksOrWaits ==
  ASSUME IInv, IInv', [Next]_vars
  PROVE  /\ PassStep => <<PassLeft', PassLeft>> \in PassBelow
         /\ InPass /\ ~PassStep => PassLeft' = PassLeft \/ pc' = "down"
  <1> USE DEF IInv, fileVars, inbox, coordVars, passVars
  <1>1. CASE PassStep
    <2>1. \/ Phase(pc') < Phase(pc)
          \/ pc' = pc /\ slot' = slot + 1
      <3>1. CASE ListFails \/ ChecksCancelled \/ SaveFails
        <4>1. pc' = "down" /\ pc \in {"listing", "checking", "writing", "renaming"}
          BY <3>1 DEF ListFails, ChecksCancelled, SaveFails, Gone
        <4> QED BY <4>1, PhaseOrder
      <3>2. CASE ListRunning
        BY <3>2, PhaseOrder DEF ListRunning
      <3>3. CASE CheckContainers
        <4>1. pc = "checking" /\ pc' \in {"notifying", "recording", "ending"}
          BY <3>3 DEF CheckContainers, AfterNotify
        <4> QED BY <4>1, PhaseOrder
      <3>4. CASE NotifyAccepted \/ NotifyRejected
        <4>1. pc = "notifying"
              /\ (pc' \in {"recording", "ending"} \/ (pc' = pc /\ slot' = slot + 1))
          BY <3>4, NotifyStep
        <4> QED BY <4>1, PhaseOrder
      <3>5. CASE RecordAndPrune \/ WriteTemp \/ Rename
        <4>1. \/ pc = "recording" /\ pc' = "writing"
              \/ pc = "writing" /\ pc' = "renaming"
              \/ pc = "renaming" /\ pc' = "ending"
          BY <3>5 DEF RecordAndPrune, WriteTemp, Rename
        <4> QED BY <4>1, PhaseOrder
      <3>6. CASE EndCheck
        BY <3>6, EndReturns, PhaseOrder
      <3> QED BY <1>1, <3>1, <3>2, <3>3, <3>4, <3>5, <3>6 DEF PassStep
    <2> QED BY <1>1, <2>1, PassShrinks
  <1>2. CASE ~PassStep
    <2>1. CASE Quiet
      <3>1. InPass => pc' = pc /\ slot' = slot
        BY <2>1, QuietStep DEF InPass
      <3> QED BY <1>2, <3>1 DEF PassLeft
    <2>2. CASE Start
      BY <1>2, <2>2 DEF Start, InPass
    <2>3. CASE Crash \/ SelectDone
      BY <1>2, <2>3 DEF Crash, SelectDone, Gone
    <2> QED BY <1>2, <2>1, <2>2, <2>3 DEF Next, Select, Quiet
  <1> QED BY <1>1, <1>2

\* A pass ends: every step of it, in whichever outcome, lowers a well-founded
\* measure that signals, ticks and cancellation leave alone.  It is the half of
\* SignalIsServed and TerminationEnds that needs no fairness.
THEOREM PassDescends ==
  /\ IsWellFoundedOn(PassBelow, Nat \X Nat)
  /\ Spec => [](PassLeft \in Nat \X Nat)
  /\ Spec => [][/\ PassStep => <<PassLeft', PassLeft>> \in PassBelow
                /\ InPass /\ ~PassStep => PassLeft' = PassLeft \/ pc' = "down"]_vars
  <1> DEFINE Nearer ==
        /\ PassStep => <<PassLeft', PassLeft>> \in PassBelow
        /\ InPass /\ ~PassStep => PassLeft' = PassLeft \/ pc' = "down"
  <1>1. IsWellFoundedOn(PassBelow, Nat \X Nat)
    BY NatLessThanWellFounded, WFLexPairOrdering DEF PassBelow
  <1>2. IInv => PassLeft \in Nat \X Nat
    BY PassLeftType DEF IInv
  <1>3. IInv /\ IInv' /\ [Next]_vars => Nearer
    BY PassShrinksOrWaits
  <1>4. Nearer => [Nearer]_vars
    OBVIOUS
  <1> HIDE DEF Nearer
  <1>5. Spec => [](PassLeft \in Nat \X Nat)
    BY <1>2, Invariance, PTL
  <1>6. Spec => [][Nearer]_vars
    BY <1>3, <1>4, Invariance, PTL DEF Spec
  <1> QED BY <1>1, <1>5, <1>6 DEF Nearer

-----------------------------------------------------------------------------
(* Daemon implements NotificationPromise.                                  *)

\* The variables of the promise, as the refinement mapping gives them.
AbstractUp == pc # "down"
AbstractForced == mode = ForceCheck
AbstractNews == IF pc = "notifying" THEN Pairs(batch) ELSE {}
AbstractMemory == IF pc = "down" THEN disk ELSE mem

AbstractVars == <<AbstractUp, AbstractForced, AbstractNews, told, AbstractMemory>>

\* The new memory is justified by what has been told.
LEMMA AbstractMemoryNext ==
  ASSUME IInv'
  PROVE  /\ AbstractMemory' \in Promise!Memories
         /\ \A k \in Keys, r \in Slots :
              AbstractMemory'[k] # NoEntry => <<k, AbstractMemory'[k]>> \in told'[r]
  BY DEF AbstractMemory, IInv, TypeOK, Entries, RememberedWasTold, Promise!Memories

\* Every step of Daemon is a step of the promise or leaves it unchanged.
LEMMA PromiseStep ==
  ASSUME IInv, IInv', [Next]_vars
  PROVE  \/ Promise!Begin \/ Promise!Toggle \/ Promise!Announce \/ Promise!Settle
         \/ Promise!End \/ (\E r \in Slots : Promise!Tell(r))
         \/ UNCHANGED AbstractVars
  <1> USE DEF AbstractUp, AbstractForced, AbstractNews, AbstractMemory, AbstractVars
  <1>1. CASE Start
    <2>1. mem' \in {disk, [k \in Keys |-> NoEntry]}
      BY <1>1 DEF Start, Load, NoEntries
    <2>2. pc = "down" /\ pc' = "starting" /\ UNCHANGED <<mode, told, disk>>
      BY <1>1 DEF Start, passVars, fileVars
    <2> QED BY <2>1, <2>2 DEF Promise!Begin
  <1>2. CASE Quiet
    <2>1. UNCHANGED <<disk, mem, batch, told>>
      BY <1>2, QuietStep DEF IInv
    <2>2. CASE pc' = pc /\ mode' = mode
      BY <2>1, <2>2 DEF Pairs
    <2>3. CASE pc \in {"starting", "idle"} /\ pc' \in {"idle", "listing"}
      <3>1. UNCHANGED <<AbstractUp, AbstractNews, told, AbstractMemory>>
            /\ AbstractUp /\ AbstractNews = {}
        BY <2>1, <2>3
      <3>2. AbstractForced' = ~AbstractForced \/ UNCHANGED AbstractForced
        OBVIOUS
      <3> QED BY <3>1, <3>2 DEF Promise!Toggle
    <2> QED BY <1>2, <2>2, <2>3, QuietStep DEF IInv
  <1>3. CASE ProcessEnds
    <2>1. pc # "down" /\ pc' = "down" /\ mode' = Scheduled /\ told' = told
      BY <1>3, EndStep DEF Gone, ForgetPass
    <2> QED BY <2>1, AbstractMemoryNext, ModesDiffer DEF Promise!End, Promise!Justified
  <1>4. CASE ListRunning \/ WriteTemp \/ Rename
    <2>1. pc # "notifying" /\ pc' # "notifying" /\ pc # "down" /\ pc' # "down"
          /\ UNCHANGED <<mode, mem, told>>
      BY <1>4 DEF ListRunning, WriteTemp, Rename, passVars
    <2> QED BY <2>1
  <1>5. CASE CheckContainers
    <2>1. /\ pc = "checking" /\ pc' \in {"notifying", "recording", "ending"}
          /\ batch' = IF mode.suppress THEN Filter(mem, found') ELSE found'
          /\ UNCHANGED <<mode, mem, told>>
      BY <1>5 DEF CheckContainers, AfterNotify
    <2>2. batch' \in SUBSET Update /\ mem \in Entries /\ mode \in {Scheduled, ForceCheck}
      BY DEF IInv, TypeOK
    <2>3. Pairs(batch)' \in SUBSET (Keys \X Target)
      BY <2>2, PairsType
    <2>4. ASSUME NEW a \in Pairs(batch)', mode # ForceCheck
          PROVE  mem[a[1]] # a[2]
      <3>1. PICK u \in batch' : a = <<u.key, TargetFor(u)>>
        BY DEF Pairs
      <3>2. u \in Filter(mem, found')
        BY <2>1, <2>2, <2>4 DEF Scheduled
      <3>3. IsNew(mem, u) /\ u \in Update
        BY <2>2, <3>2 DEF Filter
      <3> QED BY <2>2, <3>1, <3>3, FilterExact
    <2> QED BY <2>1, <2>3, <2>4 DEF Promise!Announce
  <1>6. CASE NotifyAccepted
    <2>1. /\ pc = "notifying" /\ batch' = batch /\ mem' = mem /\ mode' = mode
          /\ pc' \in {"notifying", "recording", "ending"}
      BY <1>6, NotifyStep DEF IInv
    <2>2. told' = [told EXCEPT ![slot] = @ \cup Pairs(batch)]
      BY <1>6 DEF NotifyAccepted
    <2>3. batch # {} \/ UNCHANGED AbstractVars
      <3>1. batch = {} => Pairs(batch) = {} /\ Pairs(batch)' = {}
        BY <2>1 DEF Pairs
      <3>2. batch = {} => told' = told
        BY <2>2, <3>1 DEF IInv, TypeOK
      <3> QED BY <2>1, <3>1, <3>2
    <2>4. batch # {} => Pairs(batch) # {}
      BY DEF Pairs
    <2>5. Pairs(batch)' = Pairs(batch) /\ slot \in Slots
      BY <2>1 DEF Pairs, IInv, TypeOK
    <2>6. batch # {} => Promise!Tell(slot)
      BY <2>1, <2>2, <2>4, <2>5 DEF Promise!Tell
    <2> QED BY <2>3, <2>5, <2>6
  <1>7. CASE NotifyRejected
    <2>1. /\ pc = "notifying" /\ batch' = batch /\ mem' = mem /\ mode' = mode
          /\ pc' \in {"notifying", "recording", "ending"}
      BY <1>7, NotifyStep DEF IInv
    <2>2. PICK sent \in SUBSET batch : told' = [told EXCEPT ![slot] = @ \cup Pairs(sent)]
      BY <1>7 DEF NotifyRejected
    <2>3. batch # {} \/ UNCHANGED AbstractVars
      <3>1. batch = {} => Pairs(batch) = {} /\ Pairs(batch)' = {} /\ Pairs(sent) = {}
        BY <2>1 DEF Pairs
      <3>2. batch = {} => told' = told
        BY <2>2, <3>1 DEF IInv, TypeOK
      <3> QED BY <2>1, <3>1, <3>2
    <2>4. (batch # {} => Pairs(batch) # {}) /\ Pairs(sent) \in SUBSET Pairs(batch)
      BY DEF Pairs
    <2>5. Pairs(batch)' = Pairs(batch) /\ slot \in Slots
      BY <2>1 DEF Pairs, IInv, TypeOK
    <2>6. batch # {} => Promise!Tell(slot)
      BY <2>1, <2>2, <2>4, <2>5 DEF Promise!Tell
    <2> QED BY <2>3, <2>5, <2>6
  <1>8. CASE RecordAndPrune
    <2>1. pc = "recording" /\ pc' = "writing" /\ UNCHANGED <<mode, told>>
      BY <1>8 DEF RecordAndPrune, passVars
    <2>2. mode # ForceCheck
      BY <2>1 DEF IInv, Coordination
    <2> QED BY <2>1, <2>2, AbstractMemoryNext DEF Promise!Settle, Promise!Justified
  <1>9. CASE EndCheck
    <2>1. pc = "ending" /\ pc' = "idle" /\ UNCHANGED <<mem, told>>
      BY <1>9, EndReturns DEF IInv
    <2>2. AbstractForced' = ~AbstractForced \/ UNCHANGED AbstractForced
      OBVIOUS
    <2>3. UNCHANGED <<AbstractUp, AbstractNews, told, AbstractMemory>>
          /\ AbstractUp /\ AbstractNews = {}
      BY <2>1
    <2> QED BY <2>2, <2>3 DEF Promise!Toggle
  <1> QED
    BY <1>1, <1>2, <1>3, <1>4, <1>5, <1>6, <1>7, <1>8, <1>9, NextCases

\* Daemon implements the notification promise.
THEOREM DaemonKeepsPromise == Spec => PromiseKept
  <1>1. Init => Promise!Init
    <2> SUFFICES ASSUME Init PROVE Promise!Init
      OBVIOUS
    <2> QED BY ModesDiffer DEF Init, Idle, NoEntries, Promise!Init
  <1>2. IInv /\ IInv' /\ [Next]_vars => [Promise!Next]_(Promise!promiseVars)
    BY PromiseStep
       DEF Promise!Next, Promise!promiseVars, AbstractVars, AbstractUp, AbstractForced,
           AbstractNews, AbstractMemory
  <1> QED
    BY <1>1, <1>2, Invariance, PTL DEF Spec, PromiseKept, Promise!Spec
=============================================================================
