------------------------- MODULE NotificationService -------------------------
(***************************************************************************)
(* What delivery promises to the people who receive notifications, without *)
(* workers, batches, sessions or the columns of a table: a notification    *)
(* that was queued is offered to the receiver at most MaxAttempts times on *)
(* record, each time no earlier than it is due, until an attempt that the  *)
(* receiver took is recorded or the attempts are used up.                  *)
(***************************************************************************)
EXTENDS Naturals

CONSTANTS
    Notifications,
    MaxAttempts

VARIABLES
    state,      \* of each notification: unknown, open, delivered or given_up
    attempts,   \* attempts on record
    due,        \* when an open notification may next be attempted
    taken,      \* notifications the receiver took
    time

serviceVars == << state, attempts, due, taken, time >>

Open == {n \in Notifications : state[n] = "open"}

Init ==
    /\ state = [n \in Notifications |-> "unknown"]
    /\ attempts = [n \in Notifications |-> 0]
    /\ taken = {}

\* New notifications are queued, due at once.
Queue(new) ==
    /\ \A n \in new : state[n] = "unknown"
    /\ state' = [n \in Notifications |-> IF n \in new THEN "open" ELSE state[n]]
    /\ \A n \in new : due'[n] = time
    /\ \A n \in Open : due'[n] = due[n]
    /\ UNCHANGED << attempts, taken, time >>

\* The receiver takes a notification that is open and due.
Take(n) ==
    /\ n \in Open
    /\ due[n] <= time
    /\ taken' = taken \cup {n}
    /\ UNCHANGED << state, attempts, due, time >>

\* The attempt just made of n goes on record with its outcome.
Recorded(n) ==
    /\ attempts'[n] = attempts[n] + 1
    /\ \/ state'[n] = "delivered" /\ n \in taken
       \/ state'[n] = "given_up" /\ attempts'[n] = MaxAttempts
       \/ state'[n] = "open" /\ attempts'[n] < MaxAttempts /\ due'[n] > time

\* Attempts made together go on record together.
Record(tried) ==
    /\ \A n \in tried : n \in Open /\ due[n] <= time /\ Recorded(n)
    /\ \A n \in Notifications \ tried :
           state'[n] = state[n] /\ attempts'[n] = attempts[n]
    /\ \A n \in Open \ tried : due'[n] = due[n]
    /\ UNCHANGED << taken, time >>

Wait == time' > time /\ UNCHANGED << state, attempts, due, taken >>

Next ==
    \/ \E new \in SUBSET Notifications : Queue(new)
    \/ \E n \in Notifications : Take(n)
    \/ \E tried \in SUBSET Notifications : Record(tried)
    \/ Wait

Spec == Init /\ [][Next]_serviceVars

=============================================================================
