----------------------------- MODULE StateStore -----------------------------
(***************************************************************************)
(* The notification state kept by `versentry run`: for every entry key     *)
(* ("{container}|{host}/{repo}") the update target that every notifier has *)
(* accepted, and the pure operations of state.go on it.  The file on disk  *)
(* and the moments at which it is read and written belong to Daemon.       *)
(*                                                                         *)
(* Entries are a total function from keys to targets; NoEntry stands for a *)
(* key the Go map does not hold.  The notification time of an entry is     *)
(* never read back and is left out.                                        *)
(***************************************************************************)
CONSTANTS
  Keys,       \* entry keys of monitored containers
  Values,     \* what a tag or a normalized digest can be
  Blank,      \* the empty string
  NoEntry     \* the key is not in the map

ASSUME StoreAssumption ==
  /\ Blank \notin Values
  /\ NoEntry \notin [mode: {"semver", "digest"}, value: Values]

\* model.UpdateAvailable, as far as the store reads it.  A semver or numeric
\* update carries the newer tag; a digest update carries the remote digest.
Update ==
  [key: Keys, latestTag: Values, remoteDigest: {Blank}]
    \cup [key: Keys, latestTag: {Blank}, remoteDigest: Values]

Target == [mode: {"semver", "digest"}, value: Values]

Entries == [Keys -> Target \cup {NoEntry}]

NoEntries == [k \in Keys |-> NoEntry]

TargetFor(u) ==
  IF u.latestTag # Blank THEN [mode |-> "semver", value |-> u.latestTag]
                         ELSE [mode |-> "digest", value |-> u.remoteDigest]

-----------------------------------------------------------------------------
\* Mutation of IsNew: the tracking mode of the stored entry is not compared.
IsNewByValue(entries, u) ==
  \/ entries[u.key] = NoEntry
  \/ entries[u.key].value # TargetFor(u).value

\* An update is new when its key is unknown, its tracking mode changed or its
\* target moved.
IsNew(entries, u) ==
  \/ entries[u.key] = NoEntry
  \/ entries[u.key].mode # TargetFor(u).mode
  \/ entries[u.key].value # TargetFor(u).value

\* What Filter hands to the notifiers; the rest of the batch is suppressed.
Filter(entries, batch) == {u \in batch : IsNew(entries, u)}

\* Every delivered update replaces the entry of its key.
Record(entries, notified) ==
  [k \in Keys |->
    IF \E u \in notified : u.key = k
    THEN TargetFor(CHOOSE u \in notified : u.key = k)
    ELSE entries[k]]

\* Entries of keys that are not active any more are dropped.
Prune(entries, activeKeys) ==
  [k \in Keys |-> IF k \in activeKeys THEN entries[k] ELSE NoEntry]

\* Mutation of Updated: an empty fleet listing prunes too.
UpdatedAlwaysPruned(entries, activeKeys, notified, canPrune) ==
  Prune(Record(entries, notified), activeKeys)

\* The in-memory half of AfterPass: record, then prune if the listing could be
\* trusted.
Updated(entries, activeKeys, notified, canPrune) ==
  IF canPrune THEN Prune(Record(entries, notified), activeKeys)
              ELSE Record(entries, notified)
=============================================================================
