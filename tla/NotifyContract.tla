--------------------------- MODULE NotifyContract ---------------------------
(***************************************************************************)
(* What App.notifyAll relies on when it calls Notify with a batch, whatever *)
(* notifier answers: events are settled in order, nil means that all of     *)
(* them are, and nothing happens once Notify has returned.                  *)
(***************************************************************************)
EXTENDS Naturals

CONSTANT Batch    \* length of the batch

VARIABLES
  settled,        \* events acknowledged by the service or with nothing to send
  result          \* "pending", then "nil" or "error"

Init == settled = {} /\ result = "pending"

Next ==
  /\ result = "pending"
  /\ settled' \in {1..n : n \in 0..Batch}
  /\ settled \subseteq settled'
  /\ result' \in {"pending", "nil", "error"}
  /\ result' = "nil" => settled' = 1..Batch

Spec == Init /\ [][Next]_<<settled, result>>
=============================================================================
