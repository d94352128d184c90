-------------------------- MODULE HealthStampProofs --------------------------
(***************************************************************************)
(* Theorems about HealthStamp, for any interval, maximal age and unit of   *)
(* time: a probe never calls a working daemon dead, nor for longer than    *)
(* the maximal age a dead one alive.                                       *)
(***************************************************************************)
EXTENDS HealthStamp, TLAPS

LEMMA AgeTypes ==
  /\ MaxAge \in Nat /\ HeartbeatInterval \in Nat
  /\ Minute \in Nat \ {0} /\ Horizon \in Nat
  <1>1. /\ Minute \in Nat \ {0} /\ Configured \in Nat /\ Interval \in Nat /\ Horizon \in Nat
    BY StampAssumption
  <1>2. MaxAge \in Nat
    BY <1>1 DEF MaxAge, Larger
  <1>3. MaxAge \div 4 \in Nat
    BY <1>2
  <1> QED BY <1>1, <1>2, <1>3 DEF HeartbeatInterval

\* The heartbeat is quicker than the stamp ages, unless a maximal age of less
\* than a minute is configured.
LEMMA BeatInTime ==
  ASSUME Configured = 0 \/ Configured >= Minute
  PROVE  HeartbeatInterval <= MaxAge
  <1> DEFINE quarter == MaxAge \div 4
  <1>1. MaxAge \in Nat /\ Minute \in Nat \ {0}
    BY AgeTypes
  <1>2. quarter \in Nat /\ quarter <= MaxAge
    BY <1>1
  <1>3. MaxAge >= Minute
    BY StampAssumption DEF MaxAge, Larger
  <1>4. HeartbeatInterval =
          IF quarter < Minute THEN Minute ELSE IF quarter > 15 * Minute THEN 15 * Minute ELSE quarter
    BY DEF HeartbeatInterval
  <1> HIDE DEF quarter
  <1> QED BY <1>1, <1>2, <1>3, <1>4

\* A stamp that can be read is as old as the file; it is missing only before the
\* first start; nothing is written while the process is down.
FileFollows ==
  /\ content = Torn \/ content = Absent \/ content = mtime
  /\ daemon = "up" \/ probe = "statted" => content # Absent
  /\ daemon = "down" => mtime <= diedAt
  /\ probe = "statted" => statMtime <= mtime

\* A daemon whose touches succeed has rewritten the file since the last beat.
Fresh ==
  /\ daemon = "up" => now <= due
  /\ daemon = "up" /\ sound => due <= mtime + HeartbeatInterval

\* What the probe holds while the daemon is steady, and what it may have said.
Seen ==
  /\ steady => daemon = "up" /\ sound
  /\ steady /\ probe = "statted" => now <= statMtime + HeartbeatInterval

IInv == TypeOK /\ FileFollows /\ Fresh /\ Seen

LEMMA InitInvariant == Init => IInv
  <1> SUFFICES ASSUME Init PROVE IInv
    OBVIOUS
  <1>1. TypeOK
    <2>1. phase \in [Writers -> {"idle", "open"}] /\ \A w \in Writers : phase[w] = "idle"
      BY DEF Init
    <2>2. 0 \in 0..Horizon /\ 0 \in 0..(0 + HeartbeatInterval) /\ 0 \in 0..0
      BY AgeTypes
    <2> QED BY <2>1, <2>2 DEF Init, TypeOK
  <1>2. FileFollows /\ Fresh /\ Seen
    BY DEF Init, FileFollows, Fresh, Seen, Torn, Absent
  <1> QED BY <1>1, <1>2 DEF IInv

LEMMA InvariantStep ==
  ASSUME IInv, [Next]_vars
  PROVE  IInv'
  <1> USE AgeTypes DEF IInv, TypeOK, FileFollows, Fresh, Seen, Writers, Torn, Absent
  <1>1. CASE Boot
    BY <1>1 DEF Boot, fileVars, probeVars
  <1>2. CASE RunTouches
    BY <1>2 DEF RunTouches, Truncate, probeVars
  <1>3. CASE Beat
    BY <1>3 DEF Beat, Truncate, probeVars
  <1>4. CASE Exit
    <2>1. phase' \in [Writers -> {"idle", "open"}] /\ \A w \in Writers : phase'[w] = "idle"
      BY <1>4 DEF Exit
    <2>2. TypeOK'
      <3>1. sound' \in BOOLEAN /\ steady' \in BOOLEAN
        BY <1>4 DEF Exit
      <3>2. diedAt' \in 0..now' /\ daemon' \in {"down", "starting", "up"}
        BY <1>4 DEF Exit
      <3>3. UNCHANGED <<now, content, mtime, due, probe, statMtime, verdict>>
        BY <1>4 DEF Exit, fileVars, probeVars
      <3> QED BY <2>1, <3>1, <3>2, <3>3
    <2>3. FileFollows' /\ Fresh' /\ Seen'
      BY <1>4 DEF Exit, fileVars, probeVars
    <2> QED BY <2>2, <2>3
  <1>5. ASSUME NEW w \in Writers, Write(w) PROVE IInv'
    <2>1. content' = now \/ content' = Torn
      BY <1>5 DEF Write
    <2>2. daemon # "down" /\ daemon' # "down" /\ phase' \in [Writers -> {"idle", "open"}]
      BY <1>5 DEF Write
    <2> QED BY <1>5, <2>1, <2>2 DEF Write, probeVars
  <1>6. ASSUME NEW w \in Writers, TouchFails(w) PROVE IInv'
    <2>1. phase' \in [Writers -> {"idle", "open"}] /\ daemon = "up" /\ daemon' = "up"
      BY <1>6 DEF TouchFails
    <2>2. due' = now + HeartbeatInterval \/ due' = due
      BY <1>6 DEF TouchFails
    <2>3. TypeOK'
      <3>1. sound' \in BOOLEAN /\ steady' \in BOOLEAN
        BY <1>6 DEF TouchFails
      <3>2. due' \in 0..(now + HeartbeatInterval)
        BY <2>2
      <3>3. UNCHANGED <<now, content, mtime, probe, statMtime, verdict, diedAt>>
        BY <1>6 DEF TouchFails, fileVars, probeVars
      <3> QED BY <2>1, <3>1, <3>2, <3>3
    <2>4. FileFollows' /\ Fresh' /\ Seen'
      BY <1>6, <2>2 DEF TouchFails, fileVars, probeVars
    <2> QED BY <2>3, <2>4
  <1>7. CASE Stat
    BY <1>7 DEF Stat, fileVars, daemonVars
  <1>8. CASE Read
    BY <1>8 DEF Read, fileVars, daemonVars
  <1>9. CASE Pass
    BY <1>9 DEF Pass, fileVars, daemonVars, probeVars
  <1>10. CASE UNCHANGED vars
    BY <1>10 DEF vars, fileVars, daemonVars, probeVars
  <1> QED BY <1>1, <1>2, <1>3, <1>4, <1>5, <1>6, <1>7, <1>8, <1>9, <1>10 DEF Next

\* The stamp follows the process: the inductive invariant.
THEOREM Invariance == Spec => []IInv
  BY InitInvariant, InvariantStep, PTL DEF Spec

\* Clock, stamp, writers and probe keep their types.
THEOREM TypeCorrect == Spec => []TypeOK
  <1>1. IInv => TypeOK
    BY DEF IInv
  <1> QED BY <1>1, Invariance, PTL

\* Unless health_max_age is under a minute, no probe finds a daemon unhealthy
\* that is up and whose touches do not fail, at whatever point of a touch it
\* looks and however long a pass takes.
THEOREM StaysGreen ==
  ASSUME Configured = 0 \/ Configured >= Minute
  PROVE  Spec => []GreenWhileUp
  <1>1. Init => GreenWhileUp
    BY DEF Init, GreenWhileUp
  <1>2. ASSUME GreenWhileUp, IInv, [Next]_vars PROVE GreenWhileUp'
    <2> USE <1>2 DEF GreenWhileUp
    <2>1. CASE Read
      <3>1. HeartbeatInterval <= MaxAge /\ MaxAge \in Nat /\ HeartbeatInterval \in Nat
        BY AgeTypes, BeatInTime
      <3>2. ASSUME steady PROVE ~(StampAge > MaxAge)
        <4>1. /\ probe = "statted" /\ now \in Nat /\ statMtime \in Nat /\ mtime \in Nat
              /\ statMtime <= mtime /\ now <= statMtime + HeartbeatInterval
              /\ content = Torn \/ content = mtime
          BY <2>1, <3>2 DEF Read, IInv, TypeOK, Seen, FileFollows
        <4> QED BY <3>1, <4>1 DEF StampAge
      <3> QED BY <2>1, <3>2 DEF Read
    <2>2. CASE Stat
      BY <2>2 DEF Stat, IInv, FileFollows
    <2>3. CASE Boot
      BY <2>3 DEF Boot, probeVars
    <2>4. CASE RunTouches
      BY <2>4 DEF RunTouches, probeVars
    <2>5. CASE Beat
      BY <2>5 DEF Beat, probeVars
    <2>6. CASE Exit
      BY <2>6 DEF Exit, probeVars
    <2>7. ASSUME NEW w \in Writers, Write(w) PROVE GreenWhileUp'
      BY <2>7 DEF Write, probeVars
    <2>8. ASSUME NEW w \in Writers, TouchFails(w) PROVE GreenWhileUp'
      BY <2>8 DEF TouchFails, probeVars
    <2>9. CASE Pass
      BY <2>9 DEF Pass, probeVars
    <2>10. CASE UNCHANGED vars
      BY <2>10 DEF vars, probeVars
    <2> QED BY <2>1, <2>2, <2>3, <2>4, <2>5, <2>6, <2>7, <2>8, <2>9, <2>10 DEF Next
  <1> QED BY <1>1, <1>2, Invariance, PTL DEF Spec

\* A process gone for longer than the maximal age is never reported healthy,
\* whatever a torn write left in the file.
THEOREM TurnsRed == Spec => RedOnceGone
  <1> DEFINE Rule == verdict' = "healthy" /\ verdict # "healthy" =>
                       daemon # "down" \/ now - diedAt <= MaxAge
  <1>1. ASSUME IInv, [Next]_vars PROVE [Rule]_vars
    <2>1. CASE Read
      <3> SUFFICES ASSUME verdict' = "healthy", daemon = "down" PROVE now - diedAt <= MaxAge
        OBVIOUS
      <3>1. StampAge <= MaxAge
        <4>1. ~(StampAge > MaxAge) /\ probe = "statted"
          BY <2>1 DEF Read
        <4>2. StampAge \in Int
          BY <1>1, <4>1 DEF StampAge, IInv, TypeOK, Torn, Absent
        <4> QED BY <4>1, <4>2, AgeTypes
      <3>2. /\ now \in Nat /\ diedAt \in Nat /\ statMtime \in Nat /\ mtime \in Nat
            /\ statMtime <= mtime /\ mtime <= diedAt
            /\ content = Torn \/ content = mtime
        BY <1>1, <2>1 DEF Read, IInv, TypeOK, FileFollows
      <3> QED BY <3>1, <3>2, AgeTypes DEF StampAge
    <2>2. CASE Stat
      BY <2>2 DEF Stat
    <2>3. CASE Boot \/ RunTouches \/ Beat \/ Exit \/ Pass
      BY <2>3 DEF Boot, RunTouches, Beat, Exit, Pass, probeVars
    <2>4. ASSUME NEW w \in Writers, Write(w) \/ TouchFails(w) PROVE [Rule]_vars
      BY <2>4 DEF Write, TouchFails, probeVars
    <2>5. CASE UNCHANGED vars
      BY <2>5
    <2> QED BY <1>1, <2>1, <2>2, <2>3, <2>4, <2>5 DEF Next
  <1> QED BY <1>1, Invariance, PTL DEF Spec, RedOnceGone
=============================================================================
