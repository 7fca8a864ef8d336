------------------------------ MODULE SeedReset ------------------------------
(***************************************************************************)
(* The seed command (seed_demo in app/cli.py) run while the rest of the    *)
(* system is up: TRUNCATE ... RESTART IDENTITY and the insert that follows *)
(* it are two transactions, a worker's cycle is several, and POST /alerts  *)
(* is one.  TRUNCATE needs every table for itself, all other statements    *)
(* share theirs; what a statement locked stays locked until its            *)
(* transaction ends, and PostgreSQL aborts one of two transactions that    *)
(* wait for each other.                                                    *)
(*                                                                         *)
(* A data set is what one seed command inserts: here a user with a field,  *)
(* a forecast and an alert that the forecast matches.  Each row is tagged  *)
(* with the data set it belongs to; the code has no such tag, it knows     *)
(* rows by their ids, which a reset starts again from 1.                   *)
(*                                                                         *)
(* PATCH and DELETE lock in the order of the reset and are left out, and   *)
(* so are the reads.  Ids that an aborted transaction used up are left     *)
(* out, which only makes ids coincide more often.                          *)
(***************************************************************************)
EXTENDS SeedData, Sequences, FiniteSets

CONSTANTS
    Seeds,        \* seed-demo commands, each run at most once
    Shapes,       \* their arguments: reset, users, fields_per_user, forecast_days
    Workers,      \* worker processes
    Requests,     \* requests of POST /alerts, each made at most once
    MaxRetries,   \* settings.delivery_max_retries
    FailFirst     \* settings.mock_whatsapp_fail_first_delivery

ASSUME SeedAssumption ==
    /\ MaxRetries \in Nat \ {0}
    /\ FailFirst \in BOOLEAN
    /\ Seeds \cap Workers = {} /\ Seeds \cap Requests = {} /\ Workers \cap Requests = {}
    /\ \A args \in Shapes :
           args.users \in Int /\ args.fields_per_user \in Int /\ args.forecast_days \in Int

Processes == Seeds \cup Workers \cup Requests

Tables == {"users", "fields", "forecasts", "alerts", "triggers", "deliveries"}

\* The table that each row's foreign key refers to.
Parent == [ fields |-> "users", forecasts |-> "fields", alerts |-> "fields",
            triggers |-> "alerts", deliveries |-> "triggers" ]

Nothing == << >>

VARIABLES
    table,         \* the rows of each table: ids are positions
    stage,         \* where each process is
    plan,          \* the tables it has yet to lock for its current statement
    held,          \* the tables its transaction has locked
    found,         \* what its transaction has read
    batch,         \* the PendingDelivery list of a worker, by delivery id
    answer,        \* and the receiver's answers to it
    shape,         \* the arguments of a seed command
    beside,        \* the seed commands that were running when it started
    failed_once,   \* the receiver's memory: trigger ids it has refused
    refused,       \* notifications that the receiver answered with a 500
    accepted       \* and those it took

lockVars == << stage, plan, held >>
seedVars == << shape, beside >>
deliveryVars == << batch, answer >>
Mock == INSTANCE MockWhatsapp

receiverVars == << failed_once, refused, accepted >>
vars == << table, lockVars, seedVars, found, deliveryVars, receiverVars >>

-----------------------------------------------------------------------------
(* Locks.                                                                  *)

\* ACCESS EXCLUSIVE, where all other statements take locks that they share.
Exclusive(p) == p \in Seeds /\ stage[p] = "truncate"

\* Process p waits for a table that q holds.
WaitsFor(p, q) ==
    /\ p # q
    /\ plan[p] # << >>
    /\ Head(plan[p]) \in held[q]
    /\ Exclusive(p) \/ Exclusive(q)

\* Every conflict involves a TRUNCATE, and no two of them hold tables at once,
\* so two processes of every circle wait for each other.
Deadlocked(p) == \E q \in Processes : WaitsFor(p, q) /\ WaitsFor(q, p)

\* No TRUNCATE holds any of these tables.
Available(ts) == \A q \in Processes : Exclusive(q) => held[q] \cap ts = {}

\* p locks the next table of its statement.
Lock(p) ==
    /\ plan[p] # << >>
    /\ \A q \in Processes : ~WaitsFor(p, q)
    /\ held' = [held EXCEPT ![p] = @ \cup {Head(plan[p])}]
    /\ plan' = [plan EXCEPT ![p] = Tail(@)]
    /\ UNCHANGED << table, stage, seedVars, found, deliveryVars, receiverVars >>

\* The statement of stage s has all its locks.
Reached(p, s) == stage[p] = s /\ plan[p] = << >>

\* Mutant: each statement is a transaction of its own.
ContinueInAnother(p, s, ts) ==
    /\ stage' = [stage EXCEPT ![p] = s]
    /\ plan' = [plan EXCEPT ![p] = ts]
    /\ held' = [held EXCEPT ![p] = {}]

\* p goes on to stage s of the same transaction, whose statement locks ts.
Continue(p, s, ts) ==
    /\ stage' = [stage EXCEPT ![p] = s]
    /\ plan' = [plan EXCEPT ![p] = ts]
    /\ UNCHANGED held

\* Mutant: a session is left open.
EndTransactionIdle(p, s, ts) ==
    /\ stage' = [stage EXCEPT ![p] = s]
    /\ plan' = [plan EXCEPT ![p] = ts]
    /\ found' = [found EXCEPT ![p] = Nothing]
    /\ UNCHANGED held

\* p's transaction ends; the next one is at stage s and locks ts first.
EndTransaction(p, s, ts) ==
    /\ stage' = [stage EXCEPT ![p] = s]
    /\ plan' = [plan EXCEPT ![p] = ts]
    /\ held' = [held EXCEPT ![p] = {}]
    /\ found' = [found EXCEPT ![p] = Nothing]

\* Mutant: what a worker was answered is kept for its next cycle.
ForgetAllButAnswers(w) == batch' = [batch EXCEPT ![w] = Nothing] /\ UNCHANGED answer

\* The locals of deliver_pending_notifications go out of scope.
Forget(w) ==
    /\ batch' = [batch EXCEPT ![w] = Nothing]
    /\ answer' = [answer EXCEPT ![w] = Nothing]

Resting == {"ready", "asleep", "done", "failed"}

\* A worker whose cycle failed backs off, the others are done for.
FailedStage(p) == IF p \in Workers THEN "asleep" ELSE "failed"

\* PostgreSQL aborts one of two transactions that wait for each other.
Abort(p) ==
    /\ Deadlocked(p)
    /\ EndTransaction(p, FailedStage(p), << >>)
    /\ UNCHANGED << table, seedVars, deliveryVars, receiverVars >>

\* The seed command is interrupted, or loses its database connection. A worker
\* whose cycle fails is in Delivery.tla and Evaluation.tla.
Interrupt(s) ==
    /\ stage[s] \notin Resting
    /\ EndTransaction(s, "failed", << >>)
    /\ UNCHANGED << table, seedVars, deliveryVars, receiverVars >>

-----------------------------------------------------------------------------
(* The seed command.                                                       *)

ShapeIsValid(args) ==
    args.users >= 2 /\ args.fields_per_user >= 2 /\ args.forecast_days >= 7

Truncated == << "deliveries", "triggers", "alerts", "forecasts", "fields", "users" >>
Inserted == << "users", "fields", "forecasts", "alerts" >>

\* The command checks its arguments and opens its first transaction.
StartSeed(s) ==
    /\ stage[s] = "ready"
    /\ \E args \in Shapes : ShapeIsValid(args) /\ shape' = [shape EXCEPT ![s] = args]
    /\ beside' = [beside EXCEPT ![s] = {t \in Seeds : stage[t] \notin Resting}]
    /\ IF shape'[s].reset THEN Continue(s, "truncate", Truncated)
                           ELSE Continue(s, "check", << "users" >>)
    /\ UNCHANGED << table, found, deliveryVars, receiverVars >>

\* TRUNCATE ... RESTART IDENTITY CASCADE, and a commit of its own.
Reset(s) ==
    /\ Reached(s, "truncate")
    /\ table' = [t \in Tables |-> << >>]
    /\ EndTransaction(s, "insert", Inserted)
    /\ UNCHANGED << seedVars, deliveryVars, receiverVars >>

\* Mutant: the test is made on a table that only the worker fills.
HasTriggers == table["triggers"] # << >>

HasUsers == table["users"] # << >>

\* Without --reset: "Seed skipped: database already contains users."
SkipSeed(s) ==
    /\ Reached(s, "check")
    /\ HasUsers
    /\ EndTransaction(s, "done", << >>)
    /\ UNCHANGED << table, seedVars, deliveryVars, receiverVars >>

FoundEmpty(s) ==
    /\ Reached(s, "check")
    /\ ~HasUsers
    /\ Continue(s, "insert", Inserted)
    /\ UNCHANGED << table, found, seedVars, deliveryVars, receiverVars >>

\* The three flushes and the commit.
InsertSeed(s) ==
    /\ Reached(s, "insert")
    /\ LET user == Len(table["users"]) + 1
           field == Len(table["fields"]) + 1
       IN  table' = [table EXCEPT
               !["users"] = Append(@, [data |-> s]),
               !["fields"] = Append(@, [data |-> s, parent |-> user]),
               !["forecasts"] = Append(@, [data |-> s, parent |-> field]),
               !["alerts"] = Append(@, [data |-> s, parent |-> field])]
    /\ EndTransaction(s, "done", << >>)
    /\ UNCHANGED << seedVars, deliveryVars, receiverVars >>

-----------------------------------------------------------------------------
(* A worker's cycle.                                                       *)

StartCycle(w) ==
    /\ stage[w] = "asleep"
    /\ Continue(w, "alerts", << "alerts", "fields", "users" >>)
    /\ UNCHANGED << table, found, seedVars, deliveryVars, receiverVars >>

\* _load_active_alerts; without alerts the session ends and delivery begins.
LoadAlerts(w) ==
    /\ Reached(w, "alerts")
    /\ IF table["alerts"] = << >>
       THEN EndTransaction(w, "load", << >>)
       ELSE /\ found' = [found EXCEPT ![w] = table["alerts"]]
            /\ Continue(w, "forecasts", << "forecasts" >>)
    /\ UNCHANGED << table, seedVars, deliveryVars, receiverVars >>

LoadForecasts(w) ==
    /\ Reached(w, "forecasts")
    /\ Continue(w, "triggers", << "triggers" >>)
    /\ UNCHANGED << table, found, seedVars, deliveryVars, receiverVars >>

\* The alerts of the cycle that have no trigger yet.
Untriggered(w) ==
    {a \in DOMAIN found[w] :
        \A t \in DOMAIN table["triggers"] : table["triggers"][t].parent # a}

\* INSERT ... ON CONFLICT DO NOTHING; only a new trigger is given a delivery.
InsertTriggers(w) ==
    /\ Reached(w, "triggers")
    /\ Continue(w, "deliveries", IF Untriggered(w) = {} THEN << >> ELSE << "deliveries" >>)
    /\ UNCHANGED << table, found, seedVars, deliveryVars, receiverVars >>

\* The commit of the new triggers, whose alerts still exist, and their
\* deliveries, in the order of the alerts.
CommitCycle(w) ==
    /\ Reached(w, "deliveries")
    /\ Untriggered(w) \subseteq DOMAIN table["alerts"]
    /\ \E new \in [1..Cardinality(Untriggered(w)) -> Untriggered(w)] :
           /\ \A i, j \in DOMAIN new : i < j => new[i] < new[j]
           /\ table' = [table EXCEPT
                  !["triggers"] = @ \o
                      [i \in DOMAIN new |-> [data |-> found[w][new[i]].data, parent |-> new[i]]],
                  !["deliveries"] = @ \o
                      [i \in DOMAIN new |->
                          [data |-> found[w][new[i]].data,
                           parent |-> Len(table["triggers"]) + i,
                           status |-> "PENDING", attempt_count |-> 0]]]
    /\ EndTransaction(w, "load", << >>)
    /\ UNCHANGED << seedVars, deliveryVars, receiverVars >>

\* What the payload of a delivery speaks of, beyond its ids.
Notification(row) == << row.data, table["triggers"][row.parent].parent >>

\* _load_pending_delivery_batch, a transaction that holds nothing when it
\* waits. Any of the rows that wait for a retry may be due.
LoadBatch(w) ==
    /\ stage[w] = "load"
    /\ Available({"deliveries", "triggers"})
    /\ LET rows == table["deliveries"]
           pending == {d \in DOMAIN rows : rows[d].status = "PENDING"}
           retrying == {d \in DOMAIN rows : rows[d].status = "RETRYING"}
       IN  \E due \in SUBSET retrying :
               LET ids == pending \cup due IN
               /\ batch' = [batch EXCEPT ![w] =
                      [d \in ids |-> [trigger |-> rows[d].parent,
                                      notification |-> Notification(rows[d])]]]
               /\ stage' = [stage EXCEPT ![w] = IF ids = {} THEN "asleep" ELSE "post"]
    /\ UNCHANGED << table, plan, held, found, seedVars, answer, receiverVars >>

\* The receiver answers. The payload's trigger_id is all it knows of what it is
\* sent.
Post(w, d) ==
    /\ stage[w] = "post"
    /\ d \in (DOMAIN batch[w]) \ (DOMAIN answer[w])
    /\ LET sent == batch[w][d]
           res == Mock!AnswerTo(sent.trigger)
       IN  /\ Mock!Receive(sent.trigger)
           /\ answer' = [answer EXCEPT ![w] =
                  [e \in (DOMAIN @) \cup {d} |-> IF e = d THEN res ELSE @[e]]]
           /\ refused' = IF res = 500 THEN refused \cup {sent.notification} ELSE refused
           /\ accepted' = IF res = 202 THEN accepted \cup {sent.notification} ELSE accepted
    /\ UNCHANGED << table, lockVars, found, seedVars, batch >>

\* The row after its outcome is recorded.
Recorded(row, res) ==
    [row EXCEPT !.attempt_count = @ + 1,
                !.status = IF res = 202 THEN "DELIVERED"
                           ELSE IF row.attempt_count + 1 >= MaxRetries THEN "FAILED"
                           ELSE "RETRYING"]

\* _apply_delivery_outcomes reads the rows of the batch again, by id, and
\* passes over those that are gone.
Apply(w) ==
    /\ stage[w] = "post"
    /\ DOMAIN batch[w] \subseteq DOMAIN answer[w]
    /\ Available({"deliveries"})
    /\ table' = [table EXCEPT !["deliveries"] =
           [d \in DOMAIN @ |-> IF d \in DOMAIN batch[w] THEN Recorded(@[d], answer[w][d])
                               ELSE @[d]]]
    /\ stage' = [stage EXCEPT ![w] = "load"]
    /\ Forget(w)
    /\ UNCHANGED << plan, held, found, seedVars, receiverVars >>

-----------------------------------------------------------------------------
(* POST /alerts.                                                           *)

StartRequest(r) ==
    /\ stage[r] = "ready"
    /\ Continue(r, "field", << "fields" >>)
    /\ UNCHANGED << table, found, seedVars, deliveryVars, receiverVars >>

\* require_field_for_user finds the field, or answers with a 404.
LoadField(r) ==
    /\ Reached(r, "field")
    /\ IF table["fields"] = << >>
       THEN EndTransaction(r, "done", << >>)
       ELSE /\ \E f \in DOMAIN table["fields"] :
                   found' = [found EXCEPT ![r] = << f, table["fields"][f].data >>]
            /\ Continue(r, "create", << "alerts" >>)
    /\ UNCHANGED << table, seedVars, deliveryVars, receiverVars >>

CreateAlert(r) ==
    /\ Reached(r, "create")
    /\ found[r][1] \in DOMAIN table["fields"]
    /\ table' = [table EXCEPT !["alerts"] =
           Append(@, [data |-> found[r][2], parent |-> found[r][1]])]
    /\ EndTransaction(r, "done", << >>)
    /\ UNCHANGED << seedVars, deliveryVars, receiverVars >>

-----------------------------------------------------------------------------
NoShape == [reset |-> FALSE, users |-> 0, fields_per_user |-> 0, forecast_days |-> 0]

Init ==
    /\ table = [t \in Tables |-> << >>]
    /\ stage = [p \in Processes |-> IF p \in Workers THEN "asleep" ELSE "ready"]
    /\ plan = [p \in Processes |-> << >>]
    /\ held = [p \in Processes |-> {}]
    /\ found = [p \in Processes |-> Nothing]
    /\ batch = [w \in Workers |-> Nothing]
    /\ answer = [w \in Workers |-> Nothing]
    /\ shape = [s \in Seeds |-> NoShape]
    /\ beside = [s \in Seeds |-> {}]
    /\ failed_once = {}
    /\ refused = {}
    /\ accepted = {}

SeedStep(s) ==
    StartSeed(s) \/ Reset(s) \/ SkipSeed(s) \/ FoundEmpty(s) \/ InsertSeed(s)

WorkerStep(w) ==
    \/ StartCycle(w)
    \/ LoadAlerts(w)
    \/ LoadForecasts(w)
    \/ InsertTriggers(w)
    \/ CommitCycle(w)
    \/ LoadBatch(w)
    \/ \E d \in DOMAIN batch[w] : Post(w, d)
    \/ Apply(w)

RequestStep(r) == StartRequest(r) \/ LoadField(r) \/ CreateAlert(r)

Next ==
    \/ \E s \in Seeds : SeedStep(s) \/ Interrupt(s)
    \/ \E w \in Workers : WorkerStep(w)
    \/ \E r \in Requests : RequestStep(r)
    \/ \E p \in Processes : Lock(p) \/ Abort(p)

Spec == Init /\ [][Next]_vars

\* Processes go on; PostgreSQL queues lock requests, so that none is passed
\* over for ever, and finds deadlocks. A seed command or a request need not
\* be made.
FairSpec ==
    /\ Spec
    /\ \A s \in Seeds : WF_vars(stage[s] # "ready" /\ SeedStep(s))
    /\ \A w \in Workers : WF_vars(WorkerStep(w))
    /\ \A r \in Requests : WF_vars(stage[r] # "ready" /\ RequestStep(r))
    /\ \A p \in Processes : SF_vars(Lock(p)) /\ WF_vars(Abort(p))

-----------------------------------------------------------------------------
(* Properties.                                                             *)

Rows(t) == {table[t][id] : id \in DOMAIN table[t]}

\* Type invariant: who holds what while at rest, and who excludes whom.
SeedTypeOK ==
    /\ DOMAIN table = Tables
    /\ \A p \in Processes :
           /\ stage[p] \in Resting => held[p] = {} /\ plan[p] = << >>
           /\ Exclusive(p) => \A q \in Processes \ {p} : held[p] \cap held[q] = {}
    /\ \A w \in Workers : stage[w] # "post" => batch[w] = Nothing

\* Every row refers to a row of its own data set, though ids restart while a
\* cycle and a request hold ids they read before: their transactions keep the
\* reset out until they end (jobs.py:146-169, alerts/api.py:20-32, cli.py:91).
ReferencesAreGenuine ==
    \A t \in DOMAIN Parent : \A row \in Rows(t) :
        /\ row.parent \in DOMAIN table[Parent[t]]
        /\ table[Parent[t]][row.parent].data = row.data

\* An outcome is only ever recorded on the notification that was posted,
\* though no lock keeps the row while the post is under way and its id may be
\* given to another one (jobs.py:252-259). One worker; a second one could
\* create that row before the first one records its outcome.
OutcomesReachTheirRow ==
    \A row \in Rows("deliveries") :
        /\ row.status = "DELIVERED" => Notification(row) \in accepted
        /\ row.attempt_count > 0 => Notification(row) \in accepted \cup refused

\* Two data sets are there together only if their commands ran at the same
\* time: between the test for users, or the reset, and the commit nothing keeps
\* another command out (cli.py:189-196 and 259).
DataSetsPileUpOnlyBeside ==
    \A u, v \in Rows("users") :
        u.data = v.data \/ u.data \in beside[v.data] \/ v.data \in beside[u.data]

StorableShapes ==
    {args \in Shapes : SeedIsStorable(args.users * args.fields_per_user, args.forecast_days)}

\* The database accepts every data set a command inserts: the formulas of
\* cli.py:131-173 against the CHECKs of weather/models.py:14-29 and
\* alerts/models.py:36-61, one refused row losing the whole data set.
SeedsAreAccepted ==
    \A s \in Seeds : stage[s] = "insert" => shape[s] \in StorableShapes

\* A seed command ends, by its commit or by an abort, whatever the worker and
\* the API do: waiting for every table is neither for ever nor a deadlock that
\* stays (cli.py:86-96).
SeedEnds == \A s \in Seeds : stage[s] # "ready" ~> stage[s] \in {"done", "failed"}

=============================================================================
