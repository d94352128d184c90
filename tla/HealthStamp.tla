----------------------------- MODULE HealthStamp -----------------------------
(***************************************************************************)
(* The liveness stamp: a file that two goroutines of `versentry run`       *)
(* rewrite in place (the heartbeat on its ticker, the Run goroutine at     *)
(* start and after every pass) and that `versentry health`, another        *)
(* process, reads to decide whether the daemon is alive.                   *)
(*                                                                         *)
(* os.WriteFile truncates and then writes, so the probe, the other writer  *)
(* and a crash can come in between.  A touch, and the probe's look at the  *)
(* file, take less than one unit of time.                                  *)
(***************************************************************************)
EXTENDS Integers

CONSTANTS
  Minute,       \* units of time in a minute
  Configured,   \* health_max_age, 0 when unset
  Interval,     \* `interval`, or the time between two slots of `schedule`
  Horizon       \* the model's last moment

ASSUME StampAssumption ==
  /\ Minute \in Nat \ {0} /\ Configured \in Nat
  /\ Interval \in Nat /\ Horizon \in Nat

VARIABLES
  now,          \* the clock of both processes
  content,      \* the stamp: a time, Torn (empty or unreadable) or Absent
  mtime,        \* modification time of the file
  daemon,       \* "down", "starting" until the first stamp is written, "up"
  phase,        \* for each writer, whether it has the file open
  due,          \* when the heartbeat's ticker fires next
  probe,        \* what the probe is doing
  statMtime,    \* the modification time the probe saw
  verdict,      \* what the probe found; "none" before
  diedAt,       \* history: when the process was last alive, if it is down
  sound,        \* history: no touch has failed since the last that succeeded
  steady        \* history: the daemon was up and sound ever since Stat

fileVars    == <<content, mtime>>
daemonVars  == <<daemon, phase, due>>
probeVars   == <<probe, statMtime, verdict>>
vars        == <<now, fileVars, daemonVars, probeVars, diedAt, sound, steady>>

Writers == {"heartbeat", "run"}
Torn    == -1
Absent  == -2

-----------------------------------------------------------------------------
Larger(a, b) == IF a > b THEN a ELSE b

\* DefaultMaxAge: at least 15 minutes unless configured.
MaxAge ==
  IF Configured > 0 THEN Configured
                    ELSE Larger(2 * Interval + 5 * Minute, 15 * Minute)

\* A quarter of it, but from 1 to 15 minutes.
HeartbeatInterval ==
  LET quarter == MaxAge \div 4
  IN  IF quarter < Minute THEN Minute
      ELSE IF quarter > 15 * Minute THEN 15 * Minute ELSE quarter

TypeOK ==
  /\ now \in 0..Horizon
  /\ content \in 0..now \cup {Torn, Absent}
  /\ mtime \in 0..now
  /\ daemon \in {"down", "starting", "up"}
  /\ phase \in [Writers -> {"idle", "open"}]
  /\ daemon = "down" => \A w \in Writers : phase[w] = "idle"
  /\ due \in 0..(now + HeartbeatInterval)
  /\ probe \in {"idle", "statted"}
  /\ statMtime \in 0..now
  /\ verdict \in {"none", "healthy", "stale", "missing"}
  /\ diedAt \in 0..now
  /\ sound \in BOOLEAN /\ steady \in BOOLEAN

Init ==
  /\ now = 0 /\ content = Absent /\ mtime = 0
  /\ daemon = "down" /\ phase = [w \in Writers |-> "idle"] /\ due = 0
  /\ probe = "idle" /\ statMtime = 0 /\ verdict = "none"
  /\ diedAt = 0 /\ sound = FALSE /\ steady = FALSE

-----------------------------------------------------------------------------
(* The daemon.                                                             *)

\* `versentry run` touches the stamp before anything else.
Boot ==
  /\ daemon = "down"
  /\ daemon' = "starting"
  /\ UNCHANGED <<now, fileVars, phase, due, probeVars, diedAt, sound, steady>>

Truncate(w) ==
  /\ phase' = [phase EXCEPT ![w] = "open"]
  /\ content' = Torn /\ mtime' = now

\* The Run goroutine: at start, and after a pass.
RunTouches ==
  /\ daemon \in {"starting", "up"} /\ phase["run"] = "idle"
  /\ Truncate("run")
  /\ UNCHANGED <<now, daemon, due, probeVars, diedAt, sound, steady>>

\* The heartbeat's ticker fires.
Beat ==
  /\ daemon = "up" /\ now >= due /\ phase["heartbeat"] = "idle"
  /\ due' = now + HeartbeatInterval
  /\ Truncate("heartbeat")
  /\ UNCHANGED <<now, daemon, probeVars, diedAt, sound, steady>>

\* The stamp is written at the start of the file.  If the other writer's is
\* there already and the two differ in length, what is left is no time at all.
Write(w) ==
  /\ phase[w] = "open"
  /\ content' \in IF content = Torn THEN {now} ELSE {now, Torn}
  /\ mtime' = now
  /\ phase' = [phase EXCEPT ![w] = "idle"]
  /\ sound' = TRUE
  /\ IF daemon = "starting"
     THEN daemon' = "up" /\ due' = now + HeartbeatInterval
     ELSE UNCHANGED <<daemon, due>>
  /\ UNCHANGED <<now, probeVars, diedAt, steady>>

\* The file cannot be opened, or not be written: fatal at start, else only a
\* line in the log.
TouchFails(w) ==
  /\ daemon = "up" /\ (phase[w] = "open" \/ w = "run" \/ now >= due)
  /\ phase' = [phase EXCEPT ![w] = "idle"]
  /\ due' = IF w = "heartbeat" /\ phase[w] = "idle" THEN now + HeartbeatInterval ELSE due
  /\ sound' = FALSE /\ steady' = FALSE
  /\ UNCHANGED <<now, fileVars, daemon, probeVars, diedAt>>

\* The process ends, killed or not, at any point of a touch.
Exit ==
  /\ daemon # "down"
  /\ daemon' = "down" /\ phase' = [w \in Writers |-> "idle"]
  /\ diedAt' = now /\ steady' = FALSE
  /\ UNCHANGED <<now, fileVars, due, probeVars, sound>>

-----------------------------------------------------------------------------
(* The probe: health.Check after a successful ping.                        *)

Stat ==
  /\ probe = "idle"
  /\ IF content = Absent
     THEN verdict' = "missing" /\ UNCHANGED <<probe, statMtime>>
     ELSE probe' = "statted" /\ statMtime' = mtime /\ verdict' = "none"
  /\ steady' = (daemon = "up" /\ sound)
  /\ UNCHANGED <<now, fileVars, daemonVars, diedAt, sound>>

\* Mutation of StampAge: a stamp that cannot be parsed is as old as can be.
StampAgeStrict == IF content = Torn THEN MaxAge + 1 ELSE now - content

\* Mutation of StampAge: a stamp that cannot be parsed is being written now.
StampAgeLenient == IF content = Torn THEN 0 ELSE now - content

\* The file's modification time stands in for a stamp that cannot be parsed.
StampAge == IF content = Torn THEN now - statMtime ELSE now - content

Read ==
  /\ probe = "statted"
  /\ probe' = "idle" /\ statMtime' = 0
  /\ verdict' = IF StampAge > MaxAge THEN "stale" ELSE "healthy"
  /\ UNCHANGED <<now, fileVars, daemonVars, diedAt, sound, steady>>

-----------------------------------------------------------------------------
\* Time stands still while a file is looked at or written, and waits for a
\* heartbeat that is due.
Pass ==
  /\ now < Horizon
  /\ \A w \in Writers : phase[w] = "idle"
  /\ probe = "idle" /\ daemon # "starting"
  /\ daemon = "up" => now < due
  /\ now' = now + 1
  /\ UNCHANGED <<fileVars, daemonVars, probeVars, diedAt, sound, steady>>

Next ==
  \/ Boot \/ RunTouches \/ Beat \/ Exit
  \/ \E w \in Writers : Write(w) \/ TouchFails(w)
  \/ Stat \/ Read
  \/ Pass

Spec == Init /\ [][Next]_vars

-----------------------------------------------------------------------------
\* A daemon that is up, and whose touches do not fail, is never reported
\* unhealthy: not by a probe that reads a truncated or overwritten stamp, and
\* not between two heartbeats while a pass takes long.
GreenWhileUp ==
  verdict \in {"stale", "missing"} => ~steady

\* A process that has been gone for longer than the maximal age is never
\* reported healthy, whatever it left in the file.
RedOnceGone ==
  [][verdict' = "healthy" /\ verdict # "healthy" =>
       daemon # "down" \/ now - diedAt <= MaxAge]_vars
=============================================================================
