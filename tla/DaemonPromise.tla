--------------------------- MODULE DaemonPromise ----------------------------
(* Daemon implements NotificationPromise: the refinement mapping.           *)
EXTENDS Daemon

Promise == INSTANCE NotificationPromise WITH
  Targets    <- Target,
  Recipients <- Slots,
  Nothing    <- NoEntry,
  up         <- (pc # "down"),
  forced     <- (mode = ForceCheck),
  announcing <- IF pc = "notifying" THEN Pairs(batch) ELSE {},
  remembered <- IF pc = "down" THEN disk ELSE mem

\* The daemon keeps the notification promise: it announces only what it does
\* not remember unless forced, and remembers only what every notifier accepted.
PromiseKept == Promise!Spec
=============================================================================
