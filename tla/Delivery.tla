------------------------------ MODULE Delivery ------------------------------
(***************************************************************************)
(* The delivery half of a worker cycle (app/worker/jobs.py,                *)
(* app/modules/notifications/delivery.py): a worker loads a batch of due   *)
(* rows of notification_deliveries in one session, posts all of them       *)
(* concurrently to the webhook, and in another session reads the rows      *)
(* again and records the outcomes in one commit.                           *)
(*                                                                         *)
(* What is durable is the table `rows`; everything a worker holds between  *)
(* its two sessions (batch, copied, outcome, snapshot) is lost when its    *)
(* cycle fails.  The receiver's side (posts, seen, accepted) is what the   *)
(* outside world observed; the code never reads it.                        *)
(***************************************************************************)
EXTENDS Integers, FiniteSets, Sequences, Orm

CONSTANTS
    Workers,      \* worker processes: the service, and perhaps `make worker-once`
    N,            \* delivery rows that evaluation may create, with ids 1..N
    MaxRetries,   \* settings.delivery_max_retries
    BatchSize,    \* settings.worker_delivery_batch_size
    Backoff,      \* settings.parsed_backoff_minutes
    Answers,      \* HTTP statuses the receiver may answer with
    Poison,       \* rows whose target_url httpx refuses to parse (InvalidURL)
    MaxFaults,    \* bound: crashes, database errors, unstorable answers
    MaxTime       \* bound: minutes

ASSUME ConstantsAssumption ==
    /\ N \in Nat \ {0}
    /\ MaxRetries \in Nat \ {0}
    /\ BatchSize \in Nat \ {0}
    /\ Backoff \in Seq(Nat \ {0})
    /\ Backoff # << >>
    /\ Answers \subseteq 100..999
    /\ Poison \subseteq 1..N
    /\ MaxFaults \in Nat
    /\ MaxTime \in Nat

Deliveries == 1..N

Null == -1       \* SQL NULL in response_status and last_error
NoAnswer == 0    \* an httpx.HTTPError: DeliveryResult.response_status is None
Pending == -2    \* a post of the batch that gather still waits for

Outcome == Answers \cup {NoAnswer}

Statuses == {"ABSENT", "PENDING", "RETRYING", "DELIVERED", "FAILED"}

\* A row of notification_deliveries. last_error keeps which outcome worded it
\* (the message is a function of the answer); sent_at only whether it is set.
Row == [ status : Statuses,
         attempt_count : Nat,
         next_attempt_at : Nat,
         response_status : Answers \cup {Null},
         last_error : Outcome \cup {Null},
         sent_at : BOOLEAN ]

NoRow == [ status |-> "ABSENT", attempt_count |-> 0, next_attempt_at |-> 0,
           response_status |-> Null, last_error |-> Null, sent_at |-> FALSE ]

VARIABLES
    rows,       \* the table, by id; NoRow until evaluation inserts it
    now,        \* utcnow(), in minutes
    pc,         \* where each worker is in its cycle
    batch,      \* ids of the PendingDelivery list a worker holds
    copied,     \* their attempt_count as loaded, from which the payload is built
    outcome,    \* the DeliveryResult of each post of the batch
    snapshot,   \* the rows read again by _apply_delivery_outcomes
    orphans,    \* posts whose gather has already raised, still on the wire
    posts,      \* posts of each row that a gather waited for
    seen,       \* payload attempt_counts of the posts made, and of orphans that arrived
    accepted,   \* rows whose notification the receiver took
    faults      \* faults so far

dbVars == << rows, now >>
workerVars == << pc, batch, copied, outcome, snapshot >>
receiverVars == << orphans, posts, seen, accepted >>
vars == << dbVars, workerVars, receiverVars, faults >>

-----------------------------------------------------------------------------
(* Backoff schedule and success test.                                      *)

\* Mutant: an attempt past the end of the schedule is retried at once.
BackoffUnclamped(attempt) == IF attempt \in DOMAIN Backoff THEN Backoff[attempt] ELSE 0

\* The schedule entry for a recorded attempt, the last one once it runs out.
BackoffMinutes(attempt) ==
    LET index == IF attempt < 1 THEN 1 ELSE attempt
    IN  Backoff[IF index > Len(Backoff) THEN Len(Backoff) ELSE index]

IsSuccess(res) == res \in 200..299

\* What DeliveryResult.response_status stores for an outcome.
StatusOf(res) == IF res = NoAnswer THEN Null ELSE res

-----------------------------------------------------------------------------
(* The CHECK constraints of the table.                                     *)

ResponseStatusHttpBounds(r) ==
    r.response_status = Null \/ r.response_status \in 100..599

AttemptCountMatchesStatus(r) == (r.status = "PENDING") <=> (r.attempt_count = 0)

\* Mutant: the constraint is not created.
SentAtUnchecked(r) == TRUE

SentAtMatchesStatus(r) == (r.status = "DELIVERED") <=> r.sent_at

DeliveredHasResult(r) ==
    r.status = "DELIVERED" => r.response_status \in 200..299 /\ r.last_error = Null

UndeliveredResult(r) ==
    /\ r.status = "PENDING" => r.last_error = Null /\ r.response_status = Null
    /\ r.status \in {"RETRYING", "FAILED"} => r.last_error # Null

RowChecks(r) ==
    /\ ResponseStatusHttpBounds(r)
    /\ AttemptCountMatchesStatus(r)
    /\ SentAtMatchesStatus(r)
    /\ DeliveredHasResult(r)
    /\ UndeliveredResult(r)

-----------------------------------------------------------------------------
(* Selecting a batch.                                                      *)

\* Mutant: only rows never attempted are picked up.
DueOnlyPending == {d \in Deliveries : /\ rows[d].status = "PENDING"
                                      /\ rows[d].next_attempt_at <= now}

\* Mutant: the status filter forgets that FAILED is final.
DueFailedToo == {d \in Deliveries : /\ rows[d].status \in {"PENDING", "RETRYING", "FAILED"}
                                    /\ rows[d].next_attempt_at <= now}

\* Mutant: a row is due one minute early.
DueEarly == {d \in Deliveries : /\ rows[d].status \in {"PENDING", "RETRYING"}
                                /\ rows[d].next_attempt_at <= now + 1}

Due == {d \in Deliveries : /\ rows[d].status \in {"PENDING", "RETRYING"}
                           /\ rows[d].next_attempt_at <= now}

\* ORDER BY next_attempt_at, id
Before(c, d) ==
    \/ rows[c].next_attempt_at < rows[d].next_attempt_at
    \/ rows[c].next_attempt_at = rows[d].next_attempt_at /\ c < d

\* Mutant: the limit is applied before the filter.
NextBatchOfTable ==
    {d \in Due : Cardinality({c \in Deliveries : rows[c].status # "ABSENT" /\ Before(c, d)})
                     < BatchSize}

\* The first worker_delivery_batch_size due rows.
NextBatch == {d \in Due : Cardinality({c \in Due : Before(c, d)}) < BatchSize}

-----------------------------------------------------------------------------
(* Recording an outcome: what the loop body of _apply_delivery_outcomes    *)
(* assigns to the row r it read, at time t.                                *)

\* Mutant: a success leaves the error of the attempt before.
AfterSuccessKeepingError(r, res, t) ==
    [ status |-> "DELIVERED", attempt_count |-> r.attempt_count + 1,
      next_attempt_at |-> t, response_status |-> StatusOf(res),
      last_error |-> r.last_error, sent_at |-> TRUE ]

AfterSuccess(r, res, t) ==
    [ status |-> "DELIVERED",
      attempt_count |-> r.attempt_count + 1,
      next_attempt_at |-> t,
      response_status |-> StatusOf(res),
      last_error |-> Null,
      sent_at |-> TRUE ]

\* Mutant: the attempts before this one are compared with the limit.
ExhaustedLate(r) == r.attempt_count >= MaxRetries

Exhausted(r) == r.attempt_count + 1 >= MaxRetries

\* Mutant: the count jumps to the limit.
AfterFailureGivingUp(r, res, t) ==
    [ r EXCEPT !.status = "FAILED", !.attempt_count = MaxRetries,
               !.response_status = StatusOf(res), !.last_error = res ]

\* Mutant: only answered attempts are counted.
AfterFailureCountingAnswers(r, res, t) ==
    [ r EXCEPT !.status = IF Exhausted(r) THEN "FAILED" ELSE "RETRYING",
               !.attempt_count = IF res = NoAnswer THEN @ ELSE @ + 1,
               !.next_attempt_at = t + BackoffMinutes(r.attempt_count + 1),
               !.response_status = StatusOf(res),
               !.last_error = res ]

AfterFailure(r, res, t) ==
    [ status |-> IF Exhausted(r) THEN "FAILED" ELSE "RETRYING",
      attempt_count |-> r.attempt_count + 1,
      next_attempt_at |-> IF Exhausted(r) THEN r.next_attempt_at
                          ELSE t + BackoffMinutes(r.attempt_count + 1),
      response_status |-> StatusOf(res),
      last_error |-> res,
      sent_at |-> r.sent_at ]

Assigned(r, res, t) ==
    IF IsSuccess(res) THEN AfterSuccess(r, res, t) ELSE AfterFailure(r, res, t)

\* The row after the UPDATE. A timestamp just taken differs from the one
\* loaded, so next_attempt_at is written unless the branch leaves it alone.
Written(current, read, res, t) ==
    LET a == Assigned(read, res, t) IN
    [ status |-> Column(current.status, read.status, a.status),
      attempt_count |-> Column(current.attempt_count, read.attempt_count, a.attempt_count),
      next_attempt_at |-> IF a.status = "FAILED" THEN current.next_attempt_at
                          ELSE a.next_attempt_at,
      response_status |-> Column(current.response_status, read.response_status,
                                 a.response_status),
      last_error |-> Column(current.last_error, read.last_error, a.last_error),
      sent_at |-> Column(current.sent_at, read.sent_at, a.sent_at) ]

\* Mutant: every row is given the first result of the batch.
ResultOfFirst(w, d) == outcome[w][CHOOSE c \in batch[w] : \A e \in batch[w] : c <= e]

\* zip(pending_deliveries, outcomes): gather keeps the order of the batch.
ResultFor(w, d) == outcome[w][d]

\* Row d of worker w's batch as its UPDATE leaves it.
Updated(w, d) == Written(rows[d], snapshot[w][d], ResultFor(w, d), now)

Storable(w) == \A d \in batch[w] : RowChecks(Updated(w, d))

-----------------------------------------------------------------------------
(* Steps.                                                                  *)

PendingRow == [ status |-> "PENDING", attempt_count |-> 0, next_attempt_at |-> now,
                response_status |-> Null, last_error |-> Null, sent_at |-> FALSE ]

NoCopies == [d \in Deliveries |-> 0]
NoOutcomes == [d \in Deliveries |-> Pending]
NoSnapshot == [d \in Deliveries |-> NoRow]

\* Mutant: the outcomes of a batch are kept for the next one.
ForgetAllButOutcomes(w) ==
    /\ batch' = [batch EXCEPT ![w] = {}]
    /\ copied' = [copied EXCEPT ![w] = NoCopies]
    /\ snapshot' = [snapshot EXCEPT ![w] = NoSnapshot]
    /\ UNCHANGED outcome

\* The locals of deliver_pending_notifications go out of scope.
Forget(w) ==
    /\ batch' = [batch EXCEPT ![w] = {}]
    /\ copied' = [copied EXCEPT ![w] = NoCopies]
    /\ outcome' = [outcome EXCEPT ![w] = NoOutcomes]
    /\ snapshot' = [snapshot EXCEPT ![w] = NoSnapshot]

\* A cycle starts: evaluation commits the rows of its new triggers (any set of
\* them; Evaluation.tla says which) and the delivery loop begins.
StartCycle(w) ==
    /\ pc[w] = "asleep"
    /\ \E new \in SUBSET {d \in Deliveries : rows[d].status = "ABSENT"} :
           rows' = [d \in Deliveries |-> IF d \in new THEN PendingRow ELSE rows[d]]
    /\ pc' = [pc EXCEPT ![w] = "load"]
    /\ UNCHANGED << now, batch, copied, outcome, snapshot, receiverVars, faults >>

\* _load_pending_delivery_batch finds due rows and copies them.
LoadBatch(w) ==
    /\ pc[w] = "load"
    /\ Due # {}
    /\ batch' = [batch EXCEPT ![w] = NextBatch]
    /\ copied' = [copied EXCEPT ![w] =
           [d \in Deliveries |-> IF d \in NextBatch THEN rows[d].attempt_count ELSE 0]]
    /\ pc' = [pc EXCEPT ![w] = "post"]
    /\ UNCHANGED << dbVars, outcome, snapshot, receiverVars, faults >>

\* The batch is empty: the loop breaks and the worker sleeps.
FinishCycle(w) ==
    /\ pc[w] = "load"
    /\ Due = {}
    /\ pc' = [pc EXCEPT ![w] = "asleep"]
    /\ UNCHANGED << dbVars, batch, copied, outcome, snapshot, receiverVars, faults >>

\* Mutant: the payload carries the number of the attempt before.
PayloadAttemptStale(w, d) == copied[w][d]

PayloadAttempt(w, d) == copied[w][d] + 1

\* One post of the gather ends: the receiver answered res, or the client gave
\* up on it (NoAnswer), and then the receiver may have taken it all the same.
\* An answer the table cannot store uses up a fault.
Post(w, d) ==
    /\ pc[w] = "post"
    /\ d \in batch[w]
    /\ batch[w] \cap Poison = {}
    /\ outcome[w][d] = Pending
    /\ \E res \in Outcome :
           /\ outcome' = [outcome EXCEPT ![w][d] = res]
           /\ \/ IsSuccess(res) /\ accepted' = accepted \cup {d}
              \/ res = NoAnswer /\ accepted' \in {accepted, accepted \cup {d}}
              \/ ~IsSuccess(res) /\ res # NoAnswer /\ accepted' = accepted
           /\ IF res > 599 THEN faults < MaxFaults /\ faults' = faults + 1
                           ELSE faults' = faults
    /\ posts' = [posts EXCEPT ![d] = @ + 1]
    /\ seen' = [seen EXCEPT ![d] = @ \cup {PayloadAttempt(w, d)}]
    /\ UNCHANGED << dbVars, pc, batch, copied, snapshot, orphans >>

\* A post raises something other than httpx.HTTPError: gather raises before any
\* answer arrives, the cycle fails, and the other posts stay on the wire.
GatherRaises(w) ==
    /\ pc[w] = "post"
    /\ batch[w] \cap Poison # {}
    /\ orphans' = orphans \cup {<<d, PayloadAttempt(w, d)>> : d \in batch[w] \ Poison}
    /\ pc' = [pc EXCEPT ![w] = "asleep"]
    /\ Forget(w)
    /\ UNCHANGED << dbVars, posts, seen, accepted, faults >>

\* An orphaned post reaches the receiver; nobody waits for the answer.
OrphanArrives ==
    /\ \E o \in orphans :
           /\ orphans' = orphans \ {o}
           /\ seen' = [seen EXCEPT ![o[1]] = @ \cup {o[2]}]
           /\ accepted' \in {accepted, accepted \cup {o[1]}}
    /\ UNCHANGED << dbVars, workerVars, posts, faults >>

\* _apply_delivery_outcomes opens its session and reads the rows of the batch.
ReadBack(w) ==
    /\ pc[w] = "post"
    /\ \A d \in batch[w] : outcome[w][d] # Pending
    /\ snapshot' = [snapshot EXCEPT ![w] =
           [d \in Deliveries |-> IF d \in batch[w] THEN rows[d] ELSE NoRow]]
    /\ pc' = [pc EXCEPT ![w] = "apply"]
    /\ UNCHANGED << dbVars, batch, copied, outcome, receiverVars, faults >>

\* The commit succeeds and the loop looks for another batch.
Commit(w) ==
    /\ pc[w] = "apply"
    /\ Storable(w)
    /\ rows' = [d \in Deliveries |-> IF d \in batch[w] THEN Updated(w, d) ELSE rows[d]]
    /\ pc' = [pc EXCEPT ![w] = "load"]
    /\ Forget(w)
    /\ UNCHANGED << now, receiverVars, faults >>

\* One row breaks a CHECK: the whole batch rolls back and the cycle fails.
Rollback(w) ==
    /\ pc[w] = "apply"
    /\ ~Storable(w)
    /\ pc' = [pc EXCEPT ![w] = "asleep"]
    /\ Forget(w)
    /\ UNCHANGED << dbVars, receiverVars, faults >>

\* The process dies, or the database refuses a statement, between two steps.
CycleFails(w) ==
    /\ pc[w] # "asleep"
    /\ faults < MaxFaults
    /\ faults' = faults + 1
    /\ pc' = [pc EXCEPT ![w] = "asleep"]
    /\ Forget(w)
    /\ UNCHANGED << dbVars, receiverVars >>

\* A minute passes. The code compares the clock with next_attempt_at only, so
\* minutes that pass while no row waits for its time are left out.
Tick ==
    /\ now < MaxTime
    /\ \E d \in Deliveries : rows[d].status = "RETRYING" /\ rows[d].next_attempt_at > now
    /\ now' = now + 1
    /\ UNCHANGED << rows, workerVars, receiverVars, faults >>

Init ==
    /\ rows = [d \in Deliveries |-> NoRow]
    /\ now = 0
    /\ pc = [w \in Workers |-> "asleep"]
    /\ batch = [w \in Workers |-> {}]
    /\ copied = [w \in Workers |-> NoCopies]
    /\ outcome = [w \in Workers |-> NoOutcomes]
    /\ snapshot = [w \in Workers |-> NoSnapshot]
    /\ orphans = {}
    /\ posts = [d \in Deliveries |-> 0]
    /\ seen = [d \in Deliveries |-> {}]
    /\ accepted = {}
    /\ faults = 0

\* What a worker does of its own accord: the loop around its cycle.
WorkerStep(w) ==
    \/ StartCycle(w)
    \/ LoadBatch(w)
    \/ FinishCycle(w)
    \/ \E d \in Deliveries : Post(w, d)
    \/ GatherRaises(w)
    \/ ReadBack(w)
    \/ Commit(w)
    \/ Rollback(w)

Next ==
    \/ \E w \in Workers : WorkerStep(w) \/ CycleFails(w)
    \/ OrphanArrives
    \/ Tick

Spec == Init /\ [][Next]_vars

\* worker_loop never stops, every post ends (answer, error or the client's
\* timeout), a session ends in a commit or a rollback, and minutes pass.
Fairness ==
    /\ \A w \in Workers : WF_vars(WorkerStep(w))
    /\ WF_vars(Tick)

FairSpec == Spec /\ Fairness

-----------------------------------------------------------------------------
(* Properties.                                                             *)

\* A worker holds a batch exactly from loading it to the end of its apply
\* session, and results for that batch only, all of them once it reads back.
LocalsOK ==
    \A w \in Workers :
        /\ pc[w] \in {"asleep", "load"} => batch[w] = {}
        /\ \A d \in Deliveries : outcome[w][d] # Pending => d \in batch[w]
        /\ pc[w] = "apply" => \A d \in batch[w] : outcome[w][d] # Pending

\* Type invariant, with the shape of what a worker holds.
TypeOK ==
    /\ rows \in [Deliveries -> Row]
    /\ now \in Nat
    /\ pc \in [Workers -> {"asleep", "load", "post", "apply"}]
    /\ batch \in [Workers -> SUBSET Deliveries]
    /\ copied \in [Workers -> [Deliveries -> Nat]]
    /\ outcome \in [Workers -> [Deliveries -> Outcome \cup {Pending}]]
    /\ snapshot \in [Workers -> [Deliveries -> Row]]
    /\ orphans \subseteq Deliveries \X Nat
    /\ posts \in [Deliveries -> Nat]
    /\ seen \in [Deliveries -> SUBSET Nat]
    /\ accepted \subseteq Deliveries
    /\ faults \in Nat
    /\ LocalsOK

\* A post of row d has ended and its outcome is not recorded yet.
Unrecorded(w, d) == d \in batch[w] /\ outcome[w][d] # Pending

\* How many workers hold an unrecorded outcome of row d.
UnrecordedCount(d) == Cardinality({w \in Workers : Unrecorded(w, d)})

Terminal(d) == rows[d].status \in {"DELIVERED", "FAILED"}

\* A row says DELIVERED only if the receiver took that row's notification,
\* whatever fails and however many workers run (jobs.py:264-270).
DeliveredWasAccepted == \A d \in Deliveries : rows[d].status = "DELIVERED" => d \in accepted

\* No attempt is counted that was not made: the attempts a row records and
\* the ones still unrecorded are all backed by posts (jobs.py:261). This is
\* the half of the accounting that survives a second worker, whose commit can
\* only overwrite a count with a lower one.
AttemptsBackedByPosts ==
    \A d \in Deliveries : rows[d].attempt_count + UnrecordedCount(d) <= posts[d]

\* No post that a gather waited for goes uncounted, except those of a cycle that
\* failed before its commit: at most one per row and fault (at-least-once
\* delivery, jobs.py:298-312). A gather that raises waits for none of its posts:
\* while a batch holds a row that cannot be posted, each cycle may leave posts
\* of the other rows that nothing counts. Otherwise these are all the posts.
UncountedPostsAreFaults ==
    \A d \in Deliveries :
        posts[d] <= rows[d].attempt_count + UnrecordedCount(d) + faults

\* Each recorded attempt was posted under its own number, and no number was
\* skipped: the payload's attempt_count, copied before the post, agrees with
\* the count taken from a second read after it (jobs.py:224 and 261).
AttemptsAreNumbered ==
    \A d \in Deliveries :
        /\ 1..rows[d].attempt_count \subseteq seen[d]
        /\ seen[d] \subseteq 1..(rows[d].attempt_count + 1)

\* A row gives up exactly at the limit, never before it and never beyond it
\* (jobs.py:273-280).
RetryLimit ==
    \A d \in Deliveries :
        /\ rows[d].attempt_count <= MaxRetries
        /\ rows[d].status = "RETRYING" => rows[d].attempt_count < MaxRetries
        /\ rows[d].status = "FAILED" => rows[d].attempt_count = MaxRetries

\* What a worker copied when it loaded its batch is still what the table says
\* when it posts and when it records: each row of the batch is open, due, and
\* has the same attempt_count (jobs.py:174-218 closes its session first).
InFlightIsFresh ==
    \A w \in Workers : \A d \in batch[w] :
        /\ rows[d].status \in {"PENDING", "RETRYING"}
        /\ rows[d].next_attempt_at <= now
        /\ rows[d].attempt_count = copied[w][d]

\* The table's CHECKs never refuse a batch whose answers are statuses the
\* table can store, so a batch's outcomes are not lost to one of its rows
\* (notifications/models.py:23-54 against jobs.py:261-280).
OutcomesAreStorable ==
    \A w \in Workers :
        pc[w] = "apply" /\ (\A d \in batch[w] : outcome[w][d] <= 599) => Storable(w)

\* A DELIVERED or FAILED row is never written again (jobs.py:183).
TerminalIsFinal ==
    [][\A d \in Deliveries : Terminal(d) => rows'[d] = rows[d]]_vars

\* No second worker, and no late or stale outcome, takes a row out of DELIVERED:
\* sent_at_matches_status (notifications/models.py:33-37) refuses the commit.
DeliveredStaysDelivered ==
    [][\A d \in Deliveries :
           rows[d].status = "DELIVERED" => rows'[d].status = "DELIVERED"]_vars

\* Every row that is queued ends up DELIVERED or FAILED for good, whatever the
\* receiver answers and whichever cycle fails (README.md:163-166): of the N rows
\* there can be, in the end none is open.
EventuallySettled ==
    <>[](\A d \in Deliveries : rows[d].status = "ABSENT" \/ Terminal(d))

=============================================================================
