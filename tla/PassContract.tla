---------------------------- MODULE PassContract ----------------------------
(***************************************************************************)
(* What App.runPass relies on when it calls Engine.RunOnce, however many    *)
(* containers share a registry and whatever the registries answer: each     *)
(* container is decided once and for good, the updates come back only when  *)
(* every container has been decided, and an error comes only of a cancel.   *)
(* Daemon's CheckContainers and ChecksCancelled are the two results.        *)
(***************************************************************************)
CONSTANT Containers

VARIABLES
  looked,      \* containers that are decided: up to date, update or skipped
  updates,     \* those of them that have an update
  cancelled,   \* the context of the pass is done
  result       \* "pending", then "found" or "error"

Init == looked = {} /\ updates = {} /\ cancelled = FALSE /\ result = "pending"

\* Containers are decided and the context may end; no decision is taken back.
Decide ==
  /\ looked' \in SUBSET Containers /\ looked \subseteq looked'
  /\ updates' \subseteq looked' /\ updates' \cap looked = updates
  /\ cancelled => cancelled'
  /\ UNCHANGED result

Found ==
  /\ looked = Containers
  /\ result' = "found"
  /\ UNCHANGED <<looked, updates, cancelled>>

\* The whole pass is given up, whatever had been decided.
Error ==
  /\ cancelled
  /\ result' = "error"
  /\ UNCHANGED <<looked, updates, cancelled>>

Next == result = "pending" /\ (Decide \/ Found \/ Error)

Spec == Init /\ [][Next]_<<looked, updates, cancelled, result>>
=============================================================================
