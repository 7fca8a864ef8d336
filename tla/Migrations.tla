----------------------------- MODULE Migrations -----------------------------
(***************************************************************************)
(* The five Alembic revisions (alembic/versions) as scripts of statements  *)
(* over a schema, and the commands that run them: one command takes the    *)
(* schema from its revision to another, upgrading or downgrading revision  *)
(* by revision in one transaction (alembic/env.py), which a refused        *)
(* statement or a crash rolls back.                                        *)
(*                                                                         *)
(* A schema is the set of its objects, tables with the constraints and     *)
(* indexes on them, and the types of the columns whose type ever changes.  *)
(* The application is taken to write only while the schema is at head.     *)
(***************************************************************************)
EXTENDS Integers, Sequences

CONSTANT MaxCrashes   \* bound: commands that are killed

ASSUME MigrationsAssumption == MaxCrashes \in Nat

VARIABLES
    version,   \* alembic_version of the committed schema, 0 for an empty database
    schema,    \* the committed schema
    wide,      \* columns holding a value that only their type at head can hold
    command,   \* the revision the running command goes to, or Idle
    draft,     \* the schema its transaction sees
    at,        \* the revision its transaction has reached
    step,      \* statements of the current script already run
    crashes

vars == << version, schema, wide, command, draft, at, step, crashes >>

Idle == -1
Latest == 5

-----------------------------------------------------------------------------
(* Statements.                                                             *)

CreateTable(t, refs, names) ==
    [do |-> "create table", on |-> t, refs |-> refs,
     names |-> {<< t, n >> : n \in names \cup {"table"}}]
DropTable(t) == [do |-> "drop table", on |-> t]
Add(t, n) == [do |-> "add", on |-> t, name |-> n]
AddIfMissing(t, n) == [do |-> "add if missing", on |-> t, name |-> n]
Drop(t, n) == [do |-> "drop", on |-> t, name |-> n]
Alter(c, type) == [do |-> "alter", column |-> c, type |-> type]

\* The columns whose type changes, those of one ALTER TABLE together.
TableOf ==
    [ metrics |-> "weather_forecasts", threshold_value |-> "alerts",
      snapshot_values |-> "alert_triggers", message |-> "alert_triggers" ]
Columns == DOMAIN TableOf

\* Their types in the models, and as 0001 creates them.
TypeAtHead == [[c \in Columns |-> "INTEGER"] EXCEPT !.message = "TEXT"]
TypeIn0001 == [TypeAtHead EXCEPT !.message = "VARCHAR(500)"]

Exists(s, t) == << t, "table" >> \in s.objects

\* The tables whose foreign keys point at t.
ReferencesTo(t) ==
    CASE t = "users" -> {"fields"}
      [] t = "fields" -> {"weather_forecasts", "alerts"}
      [] t \in {"weather_forecasts", "alerts"} -> {"alert_triggers"}
      [] t = "alert_triggers" -> {"notification_deliveries"}
      [] OTHER -> {}

\* PostgreSQL accepts statement x on schema s.
Accepted(s, x) ==
    CASE x.do = "create table" -> ~Exists(s, x.on) /\ \A t \in x.refs : Exists(s, t)
      [] x.do = "drop table" ->
             Exists(s, x.on) /\ \A t \in ReferencesTo(x.on) : ~Exists(s, t)
      [] x.do = "add" -> Exists(s, x.on) /\ << x.on, x.name >> \notin s.objects
      [] x.do = "add if missing" -> Exists(s, x.on)
      [] x.do = "drop" -> << x.on, x.name >> \in s.objects
      [] x.do = "alter" ->
             /\ Exists(s, TableOf[x.column])
             /\ x.column \in wide => x.type = TypeAtHead[x.column]

After(s, x) ==
    CASE x.do = "create table" ->
             [ objects |-> s.objects \cup x.names,
               types |-> [c \in Columns |-> IF TableOf[c] = x.on THEN TypeIn0001[c]
                                            ELSE s.types[c]] ]
      [] x.do = "drop table" -> [s EXCEPT !.objects = {o \in @ : o[1] # x.on}]
      [] x.do \in {"add", "add if missing"} ->
             [s EXCEPT !.objects = @ \cup {<< x.on, x.name >>}]
      [] x.do = "drop" -> [s EXCEPT !.objects = @ \ {<< x.on, x.name >>}]
      [] x.do = "alter" -> [s EXCEPT !.types[x.column] = x.type]

-----------------------------------------------------------------------------
(* The revisions.                                                          *)

WorkerIndex == "ix_alerts_active_deleted_last_evaluated_id"

Upgrade0001 ==
    << CreateTable("users", {}, {"pk"}),
       CreateTable("fields", {"users"}, {"pk", "fk_user_id"}),
       Add("fields", "ix_fields_user_id"),
       CreateTable("weather_forecasts", {"fields"},
           {"pk", "fk_field_id", "uq_weather_forecasts_field_id_forecast_date",
            "rain_probability_pct_bounds", "snow_probability_pct_bounds", "rain_mm_non_negative",
            "snow_mm_non_negative", "wind_speed_mps_non_negative", "wind_gust_mps_non_negative",
            "temp_min_le_temp_max"}),
       Add("weather_forecasts", "ix_weather_forecasts_field_id_forecast_date"),
       CreateTable("alerts", {"fields"}, {"pk", "fk_field_id", "lookahead_days_bounds"}),
       Add("alerts", "ix_alerts_field_id_active_deleted"),
       Add("alerts", "ix_alerts_active_deleted_id"),
       Add("alerts", WorkerIndex),
       CreateTable("alert_triggers", {"alerts", "weather_forecasts"},
           {"pk", "fk_alert_id", "fk_weather_forecast_id",
            "uq_alert_triggers_alert_id_weather_forecast_id"}),
       Add("alert_triggers", "ix_alert_triggers_user_id_created_at"),
       Add("alert_triggers", "ix_alert_triggers_alert_id_created_at"),
       CreateTable("notification_deliveries", {"alert_triggers"},
           {"pk", "fk_trigger_id", "uq_trigger_id", "attempt_count_non_negative"}),
       Add("notification_deliveries", "ix_notification_deliveries_status_next_attempt_at") >>

Downgrade0001 ==
    << Drop("notification_deliveries", "ix_notification_deliveries_status_next_attempt_at"),
       DropTable("notification_deliveries"),
       Drop("alert_triggers", "ix_alert_triggers_alert_id_created_at"),
       Drop("alert_triggers", "ix_alert_triggers_user_id_created_at"),
       DropTable("alert_triggers"),
       Drop("alerts", WorkerIndex),
       Drop("alerts", "ix_alerts_active_deleted_id"),
       Drop("alerts", "ix_alerts_field_id_active_deleted"),
       DropTable("alerts"),
       Drop("weather_forecasts", "ix_weather_forecasts_field_id_forecast_date"),
       DropTable("weather_forecasts"),
       Drop("fields", "ix_fields_user_id"),
       DropTable("fields"),
       DropTable("users") >>

\* ROUND and CAST accept every value of the type before, whichever it was.
Upgrade0002 ==
    << Alter("metrics", "INTEGER"),
       Alter("threshold_value", "INTEGER"),
       Alter("snapshot_values", "INTEGER") >>

Downgrade0002 ==
    << Alter("metrics", "NUMERIC"),
       Alter("threshold_value", "NUMERIC"),
       Alter("snapshot_values", "NUMERIC") >>

\* Mutants: the index is taken to be there; the test for it is left out.
Upgrade0003Empty == << >>
Upgrade0003Untested == << Add("alerts", WorkerIndex) >>

Upgrade0003 == << AddIfMissing("alerts", WorkerIndex) >>
Downgrade0003 == << Drop("alerts", WorkerIndex) >>

Upgrade0004 ==
    << Add("alerts", "threshold_probability_bounds"),
       Add("alerts", "threshold_non_negative_for_metric"),
       Add("alert_triggers", "threshold_probability_snapshot_bounds"),
       Add("alert_triggers", "threshold_snapshot_non_negative_for_metric") >>

\* Mutant: one constraint of alert_triggers is sought on alerts.
Downgrade0004OfAlerts ==
    << Drop("alerts", "threshold_snapshot_non_negative_for_metric") >>

Downgrade0004 ==
    << Drop("alert_triggers", "threshold_snapshot_non_negative_for_metric"),
       Drop("alert_triggers", "threshold_probability_snapshot_bounds"),
       Drop("alerts", "threshold_non_negative_for_metric"),
       Drop("alerts", "threshold_probability_bounds") >>

DeliveryChecks ==
    << "response_status_http_bounds", "attempt_count_matches_status", "sent_at_matches_status",
       "delivered_response_status_bounds", "delivered_last_error_cleared",
       "pending_has_no_delivery_result", "failed_or_retrying_requires_error" >>

Upgrade0005 ==
    << Alter("message", "TEXT"),
       Add("alerts", "deleted_alerts_must_be_inactive"),
       Add("alert_triggers", "lookahead_days_snapshot_bounds"),
       Add("alerts", "uq_alerts_active_rule") >>
    \o [i \in 1..Len(DeliveryChecks) |-> Add("notification_deliveries", DeliveryChecks[i])]

Downgrade0005 ==
    [i \in 1..Len(DeliveryChecks) |->
        Drop("notification_deliveries", DeliveryChecks[Len(DeliveryChecks) + 1 - i])]
    \o << Drop("alerts", "uq_alerts_active_rule"),
          Drop("alert_triggers", "lookahead_days_snapshot_bounds"),
          Drop("alerts", "deleted_alerts_must_be_inactive"),
          Alter("message", "VARCHAR(500)") >>

Upgrades == << Upgrade0001, Upgrade0002, Upgrade0003, Upgrade0004, Upgrade0005 >>
Downgrades == << Downgrade0001, Downgrade0002, Downgrade0003, Downgrade0004, Downgrade0005 >>

-----------------------------------------------------------------------------
(* Commands.                                                               *)

Upgrading == command > at
Downgrading == command # Idle /\ command < at

\* The script the command is running.
Script == IF Upgrading THEN Upgrades[at + 1] ELSE Downgrades[at]

\* The transaction is over.
Close ==
    /\ command' = Idle
    /\ draft' = schema'
    /\ at' = version'
    /\ step' = 0

\* alembic upgrade or alembic downgrade, to any revision.
Begin ==
    /\ command = Idle
    /\ \E target \in (0..Latest) \ {version} : command' = target
    /\ UNCHANGED << version, schema, wide, draft, at, step, crashes >>

Execute ==
    /\ command \notin {Idle, at}
    /\ step < Len(Script)
    /\ Accepted(draft, Script[step + 1])
    /\ draft' = After(draft, Script[step + 1])
    /\ step' = step + 1
    /\ UNCHANGED << version, schema, wide, command, at, crashes >>

\* The script is done and alembic notes the revision.
NextRevision ==
    /\ command \notin {Idle, at}
    /\ step = Len(Script)
    /\ at' = IF Upgrading THEN at + 1 ELSE at - 1
    /\ step' = 0
    /\ UNCHANGED << version, schema, wide, command, draft, crashes >>

CommitCommand ==
    /\ command = at
    /\ version' = at
    /\ schema' = draft
    /\ Close
    /\ UNCHANGED << wide, crashes >>

\* A statement is refused: the command fails and everything rolls back.
Refuse ==
    /\ command \notin {Idle, at}
    /\ step < Len(Script)
    /\ ~Accepted(draft, Script[step + 1])
    /\ UNCHANGED << version, schema, wide, crashes >>
    /\ Close

Crash ==
    /\ command # Idle
    /\ crashes < MaxCrashes
    /\ crashes' = crashes + 1
    /\ UNCHANGED << version, schema, wide >>
    /\ Close

\* The application writes values into the columns, or replaces them.
Write ==
    /\ command = Idle
    /\ version = Latest
    /\ wide' \in SUBSET Columns
    /\ UNCHANGED << version, schema, command, draft, at, step, crashes >>

Init ==
    /\ version = 0
    /\ schema = [ objects |-> {}, types |-> [c \in Columns |-> "none"] ]
    /\ wide = {}
    /\ command = Idle
    /\ draft = schema
    /\ at = 0
    /\ step = 0
    /\ crashes = 0

Next ==
    \/ Begin
    \/ Execute
    \/ NextRevision
    \/ CommitCommand
    \/ Refuse
    \/ Crash
    \/ Write

Spec == Init /\ [][Next]_vars

-----------------------------------------------------------------------------
(* What the SQLAlchemy models declare.                                     *)

Declared(t) ==
    {<< t, n >> : n \in
       CASE t = "users" -> {"table", "pk"}
         [] t = "fields" -> {"table", "pk", "fk_user_id", "ix_fields_user_id"}
         [] t = "weather_forecasts" ->
                {"table", "pk", "fk_field_id", "uq_weather_forecasts_field_id_forecast_date",
                 "ix_weather_forecasts_field_id_forecast_date", "rain_probability_pct_bounds",
                 "snow_probability_pct_bounds", "rain_mm_non_negative", "snow_mm_non_negative",
                 "wind_speed_mps_non_negative", "wind_gust_mps_non_negative",
                 "temp_min_le_temp_max"}
         [] t = "alerts" ->
                {"table", "pk", "fk_field_id", "ix_alerts_field_id_active_deleted",
                 "ix_alerts_active_deleted_id", WorkerIndex, "lookahead_days_bounds",
                 "threshold_probability_bounds", "threshold_non_negative_for_metric",
                 "deleted_alerts_must_be_inactive", "uq_alerts_active_rule"}
         [] t = "alert_triggers" ->
                {"table", "pk", "fk_alert_id", "fk_weather_forecast_id",
                 "uq_alert_triggers_alert_id_weather_forecast_id",
                 "ix_alert_triggers_user_id_created_at", "ix_alert_triggers_alert_id_created_at",
                 "threshold_probability_snapshot_bounds",
                 "threshold_snapshot_non_negative_for_metric", "lookahead_days_snapshot_bounds"}
         [] t = "notification_deliveries" ->
                {"table", "pk", "fk_trigger_id", "uq_trigger_id",
                 "ix_notification_deliveries_status_next_attempt_at",
                 "attempt_count_non_negative", "response_status_http_bounds",
                 "attempt_count_matches_status", "sent_at_matches_status",
                 "delivered_response_status_bounds", "delivered_last_error_cleared",
                 "pending_has_no_delivery_result", "failed_or_retrying_requires_error"}}

Models ==
    [ objects |-> UNION {Declared(t) : t \in {"users", "fields", "weather_forecasts", "alerts",
                                              "alert_triggers", "notification_deliveries"}},
      types |-> TypeAtHead ]

-----------------------------------------------------------------------------
(* Properties.                                                             *)

\* By whatever upgrades and downgrades the database came to head, its schema is
\* the one the models declare (alembic/versions against app/modules/*/models.py).
HeadIsTheModels == version = Latest => schema = Models

\* The schema refuses no statement of an upgrade, from whatever earlier revision
\* and by whatever path the database came there: what it adds is not there yet, and
\* what it stands on is (0003:13-23 tests for the index it may miss). This is about
\* structure. Rows are written at head only here; the unique index and the CHECKs of
\* 0004 and 0005 could still be refused over rows that an older application wrote.
UpgradesAreAccepted ==
    Upgrading /\ step < Len(Script) => Accepted(draft, Script[step + 1])

\* A downgrade is refused for two reasons only: a value that the older type cannot
\* hold, and, below 0001, the index that 0003's downgrade has dropped already
\* though 0001 had created it (0003:26-27 against 0001:199).
DowngradeObstacles ==
    Downgrading /\ step < Len(Script) /\ ~Accepted(draft, Script[step + 1]) =>
        \/ Script[step + 1].do = "alter" /\ Script[step + 1].column \in wide
        \/ at = 1 /\ Script[step + 1] = Drop("alerts", WorkerIndex)

=============================================================================
