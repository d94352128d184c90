------------------------------- MODULE Daemon -------------------------------
(***************************************************************************)
(* The process `versentry run`: the select loop of App.Run, the run        *)
(* coordinator, one detection pass (runPass) with its notifiers, the       *)
(* notification state in memory and on disk, Unix signals, the schedule,   *)
(* shutdown, crashes and restarts.                                         *)
(*                                                                         *)
(* Everything a pass does runs on the one goroutine of App.Run, so pc is   *)
(* the place that goroutine has reached.  The other actors are the signal  *)
(* and timer runtime (which fill channels of capacity one), the operator   *)
(* and the machine (which stop, kill and start the process), and the       *)
(* container runtime, registries and notification services, whose answers  *)
(* are chosen afresh each time they are asked.                             *)
(***************************************************************************)
EXTENDS StateStore, Naturals

CONSTANTS
  NotifierCount,   \* length of the configured notifier list
  Cron             \* TRUE with `schedule`, FALSE with `interval`

ASSUME DaemonAssumption ==
  /\ NotifierCount \in Nat \ {0}
  /\ Cron \in BOOLEAN

VARIABLES
  file,        \* the state file: "absent", "unusable" (corrupt or version 1) or "whole"
  disk,        \* the entries a whole state file holds
  pc,          \* where the Run goroutine is; "down" when there is no process
  mem,         \* Store.data.Entries
  cancelled,   \* the context of SIGINT and SIGTERM is done
  usr1, usr2,  \* a signal is waiting in its channel
  tick,        \* a value is waiting in the schedule channel
  running,     \* runCoordinator.running
  queued,      \* runCoordinator.pending; NoMode when nil
  mode,        \* the mode of the current pass
  resetAfter,  \* the trigger resets the ticker once its checks are done
  active,      \* activeKeys of the pass
  canPrune,    \* the pass listed at least one container
  found,       \* the updates the pass discovered
  batch,       \* toNotify
  slot,        \* the notifier to call next
  allOK,       \* no notifier of the pass has failed
  told,        \* history: what each notifier may have delivered, for good
  blind        \* history: Load could not read the whole file that is on disk

fileVars  == <<file, disk>>
inbox     == <<usr1, usr2, tick>>
coordVars == <<running, queued, resetAfter>>
passVars  == <<mode, active, canPrune, found, batch, slot, allOK>>
vars      == <<fileVars, pc, mem, cancelled, inbox, coordVars, passVars, told, blind>>

-----------------------------------------------------------------------------
\* passMode and its two values.
Scheduled  == [suppress |-> TRUE,  updateState |-> TRUE]
ForceCheck == [suppress |-> FALSE, updateState |-> FALSE]
NoMode     == [suppress |-> TRUE,  updateState |-> FALSE]

Slots == 1..NotifierCount

Locations == {"down", "starting", "idle", "listing", "checking", "notifying",
              "recording", "writing", "renaming", "ending"}

\* The updates one pass can find: at most one for each container.
Findings(keys) ==
  {F \in SUBSET {u \in Update : u.key \in keys} :
     \A u, v \in F : u.key = v.key => u = v}

Pairs(updates) == {<<u.key, TargetFor(u)>> : u \in updates}

TypeOK ==
  /\ file \in {"absent", "unusable", "whole"}
  /\ disk \in Entries
  /\ pc \in Locations
  /\ mem \in Entries
  /\ cancelled \in BOOLEAN /\ blind \in BOOLEAN
  /\ usr1 \in BOOLEAN /\ usr2 \in BOOLEAN /\ tick \in BOOLEAN
  /\ running \in BOOLEAN /\ resetAfter \in BOOLEAN
  /\ canPrune \in BOOLEAN /\ allOK \in BOOLEAN
  /\ queued \in {NoMode, Scheduled, ForceCheck}
  /\ mode \in {Scheduled, ForceCheck}
  /\ active \subseteq Keys
  /\ found \subseteq Update
  /\ batch \subseteq Update
  /\ slot \in Slots
  /\ told \in [Slots -> SUBSET (Keys \X Target)]

Idle ==
  /\ mode = Scheduled /\ active = {} /\ canPrune = FALSE
  /\ found = {} /\ batch = {} /\ slot = 1 /\ allOK = TRUE

Init ==
  /\ file \in {"absent", "unusable"} /\ disk = NoEntries
  /\ pc = "down" /\ mem = NoEntries /\ cancelled = FALSE
  /\ usr1 = FALSE /\ usr2 = FALSE /\ tick = FALSE
  /\ running = FALSE /\ queued = NoMode /\ resetAfter = FALSE
  /\ Idle
  /\ told = [n \in Slots |-> {}] /\ blind = FALSE

-----------------------------------------------------------------------------
(* The process comes and goes.                                             *)

ForgetPass ==
  /\ mode' = Scheduled /\ active' = {} /\ canPrune' = FALSE
  /\ found' = {} /\ batch' = {} /\ slot' = 1 /\ allOK' = TRUE

\* The process is gone, with everything it kept in memory.
Gone ==
  /\ pc' = "down" /\ mem' = NoEntries /\ cancelled' = FALSE
  /\ usr1' = FALSE /\ usr2' = FALSE /\ tick' = FALSE
  /\ running' = FALSE /\ queued' = NoMode /\ resetAfter' = FALSE
  /\ ForgetPass
  /\ blind' = FALSE
  /\ UNCHANGED told

\* Mutation of Load: an existing history is never read back.
LoadNothing(readable) == NoEntries

\* A missing, unreadable, corrupt or outdated file yields an empty store.
Load(readable) == IF readable /\ file = "whole" THEN disk ELSE NoEntries

\* The process starts: the configuration is good, the state is loaded and the
\* health stamp is written.  Signals are not registered yet.
Start ==
  /\ pc = "down"
  /\ \E readable \in BOOLEAN :
       /\ mem' = Load(readable)
       /\ blind' = (~readable /\ file = "whole")
  /\ pc' = "starting"
  /\ UNCHANGED <<fileVars, cancelled, inbox, coordVars, passVars, told>>

\* SIGINT or SIGTERM while the process is up: signal.NotifyContext cancels ctx.
Terminate ==
  /\ pc # "down" /\ ~cancelled
  /\ cancelled' = TRUE
  /\ UNCHANGED <<fileVars, pc, mem, inbox, coordVars, passVars, told, blind>>

\* SIGKILL, an out-of-memory kill, a machine restart: at any moment.
Crash ==
  /\ pc # "down"
  /\ Gone
  /\ UNCHANGED fileVars

-----------------------------------------------------------------------------
(* Signals and the schedule fill channels of capacity one; a second value  *)
(* is dropped.  Both signals have channels of their own, registered once   *)
(* the state is loaded: before that the Go runtime swallows them.          *)

Registered == pc \notin {"down", "starting"}

ReceiveUsr1 ==
  /\ Registered /\ ~usr1
  /\ usr1' = TRUE
  /\ UNCHANGED <<fileVars, pc, mem, cancelled, usr2, tick, coordVars, passVars, told, blind>>

ReceiveUsr2 ==
  /\ Registered /\ ~usr2
  /\ usr2' = TRUE
  /\ UNCHANGED <<fileVars, pc, mem, cancelled, usr1, tick, coordVars, passVars, told, blind>>

\* The ticker or the cron job fires; the source exists since before the
\* signals were registered.
TickFires ==
  /\ pc # "down" /\ ~tick
  /\ tick' = TRUE
  /\ UNCHANGED <<fileVars, pc, mem, cancelled, usr1, usr2, coordVars, passVars, told, blind>>

-----------------------------------------------------------------------------
(* The run coordinator and the select loop.                                *)

\* SIGUSR2 replaces a queued SIGUSR1, never the other way round.
QueuePending(m) == IF queued = NoMode \/ m = ForceCheck THEN m ELSE queued

\* trigger: queue the check if one is running, else begin it.
Trigger(m, reset) ==
  IF running
  THEN /\ queued' = QueuePending(m)
       /\ pc' = "idle"
       /\ UNCHANGED <<running, mode, resetAfter>>
  ELSE /\ running' = TRUE
       /\ mode' = m
       /\ resetAfter' = reset
       /\ pc' = "listing"
       /\ UNCHANGED queued

\* Signals are registered and, when there is no state file, the first check
\* starts at once.
OpenSignals ==
  /\ pc = "starting"
  /\ IF file = "absent"
     THEN Trigger(Scheduled, TRUE)
     ELSE pc' = "idle" /\ UNCHANGED <<running, queued, mode, resetAfter>>
  /\ UNCHANGED <<fileVars, mem, cancelled, inbox,
                 active, canPrune, found, batch, slot, allOK, told, blind>>

SelectTick ==
  /\ pc = "idle" /\ tick
  /\ tick' = FALSE
  /\ Trigger(Scheduled, TRUE)
  /\ UNCHANGED <<fileVars, mem, cancelled, usr1, usr2,
                 active, canPrune, found, batch, slot, allOK, told, blind>>

SelectUsr1 ==
  /\ pc = "idle" /\ usr1
  /\ usr1' = FALSE
  /\ Trigger(Scheduled, TRUE)
  /\ UNCHANGED <<fileVars, mem, cancelled, usr2, tick,
                 active, canPrune, found, batch, slot, allOK, told, blind>>

SelectUsr2 ==
  /\ pc = "idle" /\ usr2
  /\ usr2' = FALSE
  /\ Trigger(ForceCheck, FALSE)
  /\ UNCHANGED <<fileVars, mem, cancelled, usr1, tick,
                 active, canPrune, found, batch, slot, allOK, told, blind>>

\* Mutation of SelectDone: a break that leaves the select and not the loop.
SelectDoneBreaks ==
  /\ pc = "idle" /\ cancelled
  /\ UNCHANGED vars

\* ctx.Done() is only one of the ready cases: a check may still be chosen.
SelectDone ==
  /\ pc = "idle" /\ cancelled
  /\ Gone
  /\ UNCHANGED fileVars

-----------------------------------------------------------------------------
(* One pass: Engine.RunOnce, Filter, notifyAll, AfterPass.                 *)

\* ListRunning fails or times out, and always once ctx is done.  The error
\* ends the daemon, not only the pass.
ListFails ==
  /\ pc = "listing"
  /\ Gone
  /\ UNCHANGED fileVars

\* The fleet is listed.  It may hold containers that are excluded or have no
\* entry key, so it can be non-empty with no active key at all.
ListRunning ==
  /\ pc = "listing" /\ ~cancelled
  /\ active' \in SUBSET Keys
  /\ canPrune' \in {b \in BOOLEAN : active' # {} => b}
  /\ pc' = "checking"
  /\ UNCHANGED <<fileVars, mem, cancelled, inbox, coordVars,
                 mode, found, batch, slot, allOK, told, blind>>

\* A container check fails after ctx is done: the pass is given up and with it
\* the daemon.
ChecksCancelled ==
  /\ pc = "checking" /\ cancelled
  /\ Gone
  /\ UNCHANGED fileVars

AfterNotify == IF mode.updateState THEN "recording" ELSE "ending"

\* Every active container is checked; each ends up to date, skipped or with an
\* update.  A scheduled pass then suppresses what the store already holds.
CheckContainers ==
  /\ pc = "checking"
  /\ found' \in Findings(active)
  /\ batch' = IF mode.suppress THEN Filter(mem, found') ELSE found'
  /\ slot' = 1
  /\ allOK' = TRUE
  /\ pc' = IF batch' = {} THEN AfterNotify ELSE "notifying"
  /\ UNCHANGED <<fileVars, mem, cancelled, inbox, coordVars,
                 mode, active, canPrune, told, blind>>

\* Mutation of NextSlot: the loop over the notifiers stops at a failure.
NextSlotStopsOnFailure(ok) ==
  /\ allOK' = (allOK /\ ok)
  /\ IF slot < NotifierCount /\ ok
     THEN slot' = slot + 1 /\ UNCHANGED pc
     ELSE slot' = 1 /\ pc' = AfterNotify

\* Mutation of NextSlot: only the last notifier decides.
NextSlotLastWins(ok) ==
  /\ allOK' = ok
  /\ IF slot < NotifierCount
     THEN slot' = slot + 1 /\ UNCHANGED pc
     ELSE slot' = 1 /\ pc' = AfterNotify

\* notifyAll goes on to the next notifier whatever this one answered.
NextSlot(ok) ==
  /\ allOK' = (allOK /\ ok)
  /\ IF slot < NotifierCount
     THEN slot' = slot + 1 /\ UNCHANGED pc
     ELSE slot' = 1 /\ pc' = AfterNotify

\* Notify returns nil: the whole batch was accepted.
NotifyAccepted ==
  /\ pc = "notifying"
  /\ told' = [told EXCEPT ![slot] = @ \cup Pairs(batch)]
  /\ NextSlot(TRUE)
  /\ UNCHANGED <<fileVars, mem, cancelled, inbox, coordVars,
                 mode, active, canPrune, found, batch, blind>>

\* Notify returns an error, with any part of the batch delivered all the same.
NotifyRejected ==
  /\ pc = "notifying"
  /\ \E sent \in SUBSET batch :
       told' = [told EXCEPT ![slot] = @ \cup Pairs(sent)]
  /\ NextSlot(FALSE)
  /\ UNCHANGED <<fileVars, mem, cancelled, inbox, coordVars,
                 mode, active, canPrune, found, batch, blind>>

\* Mutation of Notified: a failed delivery is recorded like a good one.
NotifiedRegardless == batch

Notified == IF allOK THEN batch ELSE {}

\* AfterPass up to Save: it runs after a failed delivery too, then with nothing
\* to record.
RecordAndPrune ==
  /\ pc = "recording"
  /\ mem' = Updated(mem, active, Notified, canPrune)
  /\ pc' = "writing"
  /\ UNCHANGED <<fileVars, cancelled, inbox, coordVars, passVars, told, blind>>

\* Mutation of WriteTemp: the state file itself is truncated and rewritten.
WriteInPlace ==
  /\ pc = "writing"
  /\ file' = "unusable"
  /\ disk' = NoEntries
  /\ pc' = "renaming"
  /\ UNCHANGED <<mem, cancelled, inbox, coordVars, passVars, told, blind>>

\* Save writes the entries to a temporary file beside the state file ...
WriteTemp ==
  /\ pc = "writing"
  /\ pc' = "renaming"
  /\ UNCHANGED <<fileVars, mem, cancelled, inbox, coordVars, passVars, told, blind>>

\* ... and renames it over the state file.
Rename ==
  /\ pc = "renaming"
  /\ file' = "whole"
  /\ disk' = mem
  /\ blind' = FALSE
  /\ pc' = "ending"
  /\ UNCHANGED <<mem, cancelled, inbox, coordVars, passVars, told>>

\* Mutation of SaveFails: the error is logged and the daemon goes on.
SaveFailureIgnored ==
  /\ pc \in {"writing", "renaming"}
  /\ pc' = "ending"
  /\ UNCHANGED <<fileVars, mem, cancelled, inbox, coordVars, passVars, told, blind>>

\* The directory, the temporary file or the rename fails: "save state" ends
\* the daemon.
SaveFails ==
  /\ pc \in {"writing", "renaming"}
  /\ Gone
  /\ UNCHANGED fileVars

\* Mutation of TickAfterReset: every check moves the schedule.
TickAlwaysReset == FALSE

\* Ticker.Reset also discards a tick that is waiting (go 1.23 timers); the
\* cron source has no reset.
TickAfterReset == IF resetAfter /\ ~Cron THEN FALSE ELSE tick

\* Mutation of EndCheck: the coordinator is not told that the check ended.
EndCheckForgotten ==
  /\ pc = "ending"
  /\ pc' = "idle" /\ tick' = TickAfterReset
  /\ ForgetPass
  /\ UNCHANGED <<running, queued, resetAfter>>
  /\ UNCHANGED <<fileVars, mem, cancelled, usr1, usr2, told, blind>>

\* The health stamp is touched (a failure is only logged) and the coordinator
\* ends the check: a queued one follows, else the loop waits again.
EndCheck ==
  /\ pc = "ending"
  /\ queued' = NoMode
  /\ IF queued = NoMode
     THEN /\ pc' = "idle" /\ running' = FALSE /\ resetAfter' = FALSE
          /\ tick' = TickAfterReset
          /\ ForgetPass
     ELSE /\ pc' = "listing" /\ mode' = queued
          /\ active' = {} /\ canPrune' = FALSE
          /\ found' = {} /\ batch' = {} /\ slot' = 1 /\ allOK' = TRUE
          /\ UNCHANGED <<running, resetAfter, tick>>
  /\ UNCHANGED <<fileVars, mem, cancelled, usr1, usr2, told, blind>>

-----------------------------------------------------------------------------
Select == SelectTick \/ SelectUsr1 \/ SelectUsr2 \/ SelectDone

PassStep ==
  \/ ListFails \/ ListRunning \/ ChecksCancelled \/ CheckContainers
  \/ NotifyAccepted \/ NotifyRejected
  \/ RecordAndPrune \/ WriteTemp \/ Rename \/ SaveFails \/ EndCheck

Next ==
  \/ Start \/ OpenSignals \/ Terminate \/ Crash
  \/ ReceiveUsr1 \/ ReceiveUsr2 \/ TickFires
  \/ Select
  \/ PassStep

\* Every call a pass makes has a timeout or a bounded number of attempts, so
\* the Run goroutine never stays in a pass; Go's select picks a ready case at
\* random, so no case that is ready again and again is passed over for ever.
Fairness ==
  /\ WF_vars(OpenSignals)
  /\ WF_vars(PassStep)
  /\ SF_vars(SelectTick) /\ SF_vars(SelectUsr1)
  /\ SF_vars(SelectUsr2) /\ SF_vars(SelectDone)

Spec == Init /\ [][Next]_vars /\ Fairness

-----------------------------------------------------------------------------
(* Safety.                                                                 *)

\* An entry is remembered, in memory or on disk, only when every notifier has
\* accepted that very target for that key: whatever crashes, failed deliveries,
\* prunes and restarts lie between, nothing is suppressed unannounced.
RememberedWasTold ==
  \A k \in Keys, n \in Slots :
    /\ mem[k] # NoEntry => <<k, mem[k]>> \in told[n]
    /\ disk[k] # NoEntry => <<k, disk[k]>> \in told[n]

\* A scheduled pass never announces the target the state file holds for a key:
\* Load, Filter, Record and Save agree across passes and restarts, unless this
\* process could not read the file.
NoRepeatedNews ==
  pc = "notifying" /\ mode.suppress /\ ~blind =>
    \A u \in batch : disk[u.key] # TargetFor(u)

\* When a pass that saves has ended, exactly the updates that were suppressed or
\* accepted by all notifiers are on disk: the others stay new and are announced
\* again, and no update is dropped on the way.
SavedPassIsExact ==
  pc = "ending" /\ mode.updateState =>
    \A u \in found : (disk[u.key] = TargetFor(u)) <=> (allOK \/ u \notin batch)

\* Waiting in the loop, the daemon has a state file, and memory and file agree
\* unless the file could not be read: a failed save never goes unnoticed.
WaitingMatchesDisk ==
  pc = "idle" => file # "absent" /\ (blind \/ mem = disk)

\* Between passes the coordinator is at rest: no trigger can be queued behind a
\* check that is not running, where nothing would ever run it.
CoordinatorAtRest ==
  pc \in {"starting", "idle"} => ~running /\ queued = NoMode

\* A force check (SIGUSR2) leaves memory and file alone and does not take a
\* waiting tick from the schedule.
ForceCheckLeavesNoTrace ==
  [][mode = ForceCheck =>
       /\ UNCHANGED fileVars
       /\ pc' # "down" => mem' = mem /\ (tick => tick')]_vars

\* An entry leaves the file only in a pass whose container list was not empty
\* and did not hold its key (or when the file could not be read at start).
OnlyGoneContainersPruned ==
  [][\A k \in Keys : disk[k] # NoEntry /\ disk'[k] = NoEntry =>
       blind \/ (canPrune /\ k \notin active)]_vars

\* Save replaces the file in one step: a process crash at any point of a save
\* leaves a file the next start can load.
HistoryFileStaysWhole ==
  [][file = "whole" => file' = "whole"]_vars

\* The documentation's account of signals that arrive during a check: one
\* follow-up check is queued, SIGUSR2 replacing a queued SIGUSR1.
OneFollowUpQueued ==
  running => ~(usr1 /\ usr2)

-----------------------------------------------------------------------------
(* Liveness.                                                               *)

\* A signal that reached its channel is answered by a check of its kind, unless
\* the process ends first.
SignalIsServed ==
  /\ usr1 ~> (pc = "listing" /\ mode = Scheduled) \/ pc = "down"
  /\ usr2 ~> (pc = "listing" /\ mode = ForceCheck) \/ pc = "down"

\* SIGINT and SIGTERM end the process, without any further tick or signal.
TerminationEnds == cancelled ~> pc = "down"

\* A notifier that works is told of an update that every pass finds, however
\* often the other notifiers fail, while the daemon stays up and the schedule
\* keeps firing.
WorkingNotifierIsTold ==
  \A u \in Update, n \in Slots :
    (/\ <>[](pc # "down")
     /\ []<><<TickFires>>_vars
     /\ <>[][CheckContainers => u \in found']_vars
     /\ <>[][NotifyRejected => slot # n]_vars)
    => <>(<<u.key, TargetFor(u)>> \in told[n])
=============================================================================
