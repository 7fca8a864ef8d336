---------------------------- MODULE ClimateAlerts ----------------------------
(***************************************************************************)
(* The deployment of docker-compose.yml: the API and a worker's evaluation *)
(* (Evaluation.tla), the same worker's delivery (Delivery.tla) and the     *)
(* receiver it posts to (MockWhatsapp.tla).  A cycle is run_once: the      *)
(* commit that ends evaluation starts the delivery loop, whose end lets    *)
(* the next cycle start.                                                   *)
(***************************************************************************)
EXTENDS Evaluation

CONSTANTS
    N,               \* rows of notification_deliveries that may be needed
    MaxRetries,      \* settings.delivery_max_retries
    BatchSize,       \* settings.worker_delivery_batch_size
    Backoff,         \* settings.parsed_backoff_minutes
    FailFirst,       \* settings.mock_whatsapp_fail_first_delivery
    MaxTime,         \* bound: minutes waited for retries
    MaxDisturbances  \* bound: answers lost and receivers restarted

VARIABLES
    rows, now, pc, batch, copied, outcome, snapshot, orphans, posts, seen, accepted,
    delivery_of,     \* NotificationDelivery.trigger_id: the key of the trigger, by id
    failed_once,     \* the memory of the receiver
    disturbances     \* answers lost and receivers restarted

D == INSTANCE Delivery WITH Answers <- {202, 500}, Poison <- {}
Mock == INSTANCE MockWhatsapp

ASSUME ClimateAssumption ==
    /\ D!ConstantsAssumption
    /\ IsFiniteSet(Forecasts)
    /\ N >= MaxAlerts * Cardinality(Forecasts)
    /\ MaxDisturbances \in Nat

deliveryVars == << rows, now, pc, batch, copied, outcome, snapshot, orphans, posts, seen,
                   accepted, delivery_of >>
receiverVars == << failed_once, disturbances >>
evaluationVars == << apiVars, weatherVars, triggers, deliveries, workerVars, stamped >>
climateVars == << evaluationVars, faults, deliveryVars, receiverVars >>

-----------------------------------------------------------------------------
(* One cycle.                                                              *)

\* Mutant: evaluation does not wait for the delivery loop of its cycle.
AtRestOfEvaluation(w) == phase[w] = "asleep"

\* The last cycle has ended, both halves of it.
AtRest(w) == phase[w] = "asleep" /\ pc[w] = "asleep"

Evaluate(w) ==
    /\ \/ AtRest(w) /\ LoadAlerts(w)
       \/ LoadForecasts(w)
    /\ UNCHANGED << deliveryVars, receiverVars >>

\* The order in which the loops of evaluate_alerts insert.
InsertedBefore(k, l) ==
    k[1] < l[1] \/ (k[1] = l[1] /\ ForecastDate[k[2]] < ForecastDate[l[2]])

\* Delivery starts and nothing else happens in the step.
BeginDelivery(w) ==
    /\ D!StartCycle(w)
    /\ rows' = [d \in D!Deliveries |->
                   IF d \in (DOMAIN delivery_of') \ (DOMAIN delivery_of)
                   THEN D!PendingRow ELSE rows[d]]
    /\ UNCHANGED receiverVars

\* The commit of evaluation, whose new rows take the next ids.
EndEvaluation(w) ==
    /\ CommitCycle(w)
    /\ \E new \in [1..Cardinality(Queued(w)) -> Queued(w)] :
           /\ \A i, j \in DOMAIN new : i < j => InsertedBefore(new[i], new[j])
           /\ delivery_of' = delivery_of \o new
    /\ BeginDelivery(w)

\* Without live alerts evaluation returns at once.
SkipEvaluation(w) ==
    /\ AtRest(w)
    /\ LiveAlerts = {}
    /\ UNCHANGED << evaluationVars, delivery_of >>
    /\ BeginDelivery(w)

\* The answer to a post is the receiver's, or it is lost with or without the
\* post having arrived.
PostToMock(w, d) ==
    /\ D!Post(w, d)
    /\ \/ /\ outcome'[w][d] = Mock!AnswerTo(d)
          /\ Mock!Receive(d)
          /\ UNCHANGED disturbances
       \/ /\ outcome'[w][d] = D!NoAnswer
          /\ disturbances < MaxDisturbances
          /\ disturbances' = disturbances + 1
          /\ \/ accepted' = accepted /\ UNCHANGED failed_once
             \/ (d \in accepted' <=> d \in accepted \/ ~Mock!Refuses(d)) /\ Mock!Receive(d)
    /\ UNCHANGED << evaluationVars, delivery_of >>

Deliver(w) ==
    /\ \/ D!LoadBatch(w)
       \/ D!FinishCycle(w)
       \/ D!ReadBack(w)
       \/ D!Commit(w)
    /\ UNCHANGED << evaluationVars, delivery_of, receiverVars >>

\* The cycle fails in one of its halves.
Fail(w) ==
    \/ CycleFails(w) /\ UNCHANGED << deliveryVars, receiverVars >>
    \/ D!CycleFails(w) /\ UNCHANGED << evaluationVars, delivery_of, receiverVars >>

RestartReceiver ==
    /\ failed_once # {}
    /\ disturbances < MaxDisturbances
    /\ disturbances' = disturbances + 1
    /\ Mock!Start
    /\ UNCHANGED << evaluationVars, faults, deliveryVars >>

\* Requests, ingestion, midnight.
Environment ==
    /\ \/ ApiNext /\ UNCHANGED evalVars
       \/ \E f \in Forecasts : Ingest(f)
       \/ Midnight
    /\ UNCHANGED << deliveryVars, receiverVars >>

Minute == D!Tick /\ UNCHANGED << evaluationVars, delivery_of, receiverVars >>

ClimateInit ==
    /\ Init
    /\ D!Init
    /\ delivery_of = << >>
    /\ failed_once = {}
    /\ disturbances = 0

WorkerStep(w) ==
    \/ Evaluate(w)
    \/ EndEvaluation(w)
    \/ SkipEvaluation(w)
    \/ \E d \in D!Deliveries : PostToMock(w, d)
    \/ Deliver(w)

ClimateNext ==
    \/ \E w \in Workers : WorkerStep(w) \/ Fail(w)
    \/ RestartReceiver
    \/ Environment
    \/ Minute

\* worker_loop never stops, each of its statements and posts ends, and time
\* passes.
ClimateSpec ==
    /\ ClimateInit
    /\ [][ClimateNext]_climateVars
    /\ \A w \in Workers : WF_climateVars(WorkerStep(w))
    /\ WF_climateVars(Minute)

-----------------------------------------------------------------------------
(* Properties.                                                             *)

\* What the parts know of each other: every trigger has exactly one delivery
\* row, in the table since the commit of its cycle, and a worker is never in
\* both halves of its cycle (jobs.py:327-328).
PartsAgree ==
    /\ {delivery_of[d] : d \in DOMAIN delivery_of} = {Key(t) : t \in triggers}
    /\ Len(delivery_of) = Cardinality(triggers)
    /\ {d \in D!Deliveries : rows[d].status # "ABSENT"} = DOMAIN delivery_of
    /\ \A w \in Workers : phase[w] = "asleep" \/ pc[w] = "asleep"

\* The receiver's fail-first mode costs a notification one attempt: it is only
\* given up after answers were lost or the receiver forgot, often enough to use
\* up the others (jobs.py:273, mock_whatsapp/app.py:35-37, README.md:378).
GivenUpForAReason ==
    \A d \in D!Deliveries : rows[d].status = "FAILED" => disturbances >= MaxRetries - 1

\* A match that lasts is in the end delivered or given up: it is triggered,
\* whatever was evaluated before, and its row is not starved by others though
\* a batch takes only one (README.md:155-166, jobs.py:105 and 190).
LastingMatchesSettle ==
    \A a \in 1..MaxAlerts, f \in Forecasts :
        <>[](MatchesToday(a, f)) /\ <>[][FALSE]_<< alerts, readings, today >>
            => <>(\E d \in DOMAIN delivery_of : delivery_of[d] = << a, f >> /\ D!Terminal(d))

\* A notification that was queued is settled, also when its alert is edited,
\* deleted or no longer matched meanwhile (README.md:109 and 163).
QueuedIsSettled == \A d \in D!Deliveries : d \in DOMAIN delivery_of ~> D!Terminal(d)

=============================================================================
