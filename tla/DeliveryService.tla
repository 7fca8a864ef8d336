--------------------------- MODULE DeliveryService ---------------------------
(* How Delivery.tla, with one worker and rows that can all be posted,         *)
(* implements NotificationService.tla: the state of a notification is the     *)
(* status of its row, and what a worker does between its two sessions is      *)
(* invisible except for what reaches the receiver.                            *)
EXTENDS Delivery

StateOf(status) ==
    CASE status = "ABSENT" -> "unknown"
      [] status \in {"PENDING", "RETRYING"} -> "open"
      [] status = "DELIVERED" -> "delivered"
      [] status = "FAILED" -> "given_up"

Service == INSTANCE NotificationService WITH
    Notifications <- Deliveries,
    MaxAttempts <- MaxRetries,
    state <- [d \in Deliveries |-> StateOf(rows[d].status)],
    attempts <- [d \in Deliveries |-> rows[d].attempt_count],
    due <- [d \in Deliveries |-> rows[d].next_attempt_at],
    taken <- accepted,
    time <- now

\* The delivery loop keeps the service's promise: the receiver is offered a
\* notification only while it is open and due, every attempt is put on record
\* once with an outcome that happened, a retry waits, and a finished
\* notification is left alone (README.md:163-166, jobs.py:174-316).
ImplementsService == Service!Spec

=============================================================================
