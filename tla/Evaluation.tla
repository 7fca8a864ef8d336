----------------------------- MODULE Evaluation -----------------------------
(***************************************************************************)
(* The evaluation half of a worker cycle (evaluate_alerts in               *)
(* app/worker/jobs.py) beside the API of AlertApi.tla.  A cycle fixes its  *)
(* date, loads the live alerts, then loads the candidate forecasts, then   *)
(* inserts the missing triggers with their delivery rows and stamps        *)
(* last_evaluated_at, all in one commit.  Between its statements requests  *)
(* commit, forecasts are ingested and days pass, so the alerts and         *)
(* forecasts it evaluates may no longer be the ones in the tables.         *)
(***************************************************************************)
EXTENDS AlertApi

CONSTANTS
    Workers,         \* worker processes
    Forecasts,       \* ids of weather_forecasts rows
    ForecastField,   \* the field of each
    ForecastDate,    \* and its date: one row per field and date
    Readings,        \* values ingestion may store: records over metrics, or NULL
    MaxDay,          \* bound: days
    MaxFaults        \* bound: cycles that fail

ASSUME EvaluationAssumption ==
    /\ \A f \in Forecasts : ForecastDate[f] \in Int
    /\ \A f, g \in Forecasts :
           ForecastField[f] = ForecastField[g] /\ ForecastDate[f] = ForecastDate[g] => f = g
    /\ MaxDay \in Nat
    /\ MaxFaults \in Nat

VARIABLES
    readings,     \* the metric columns of each forecast row
    today,        \* utcnow().date()
    triggers,     \* the table alert_triggers
    deliveries,   \* triggers that have a row in notification_deliveries
    phase,        \* where each worker is in evaluate_alerts
    day,          \* its `today`, fixed when the cycle started
    found,        \* its `alerts`, by id
    candidates,   \* its `forecasts_by_field`, by forecast id
    stamped,      \* the rule that the last stamp of each alert evaluated
    faults        \* cycles that failed

weatherVars == << readings, today >>
workerVars == << phase, day, found, candidates >>
evalVars == << weatherVars, triggers, deliveries, workerVars, stamped, faults >>
vars == << apiVars, evalVars >>

Nothing == << >>    \* an empty map

Key(t) == << t.alert_id, t.weather_forecast_id >>

-----------------------------------------------------------------------------
(* What a cycle reads.                                                     *)

\* Mutant: alerts already evaluated are skipped until they are edited.
LiveAlertsNotEvaluated == {a \in AlertIds : IsLive(alerts[a])
                                            /\ alerts[a].last_evaluated_at = NULL}

\* _load_active_alerts
LiveAlerts == {a \in AlertIds : IsLive(alerts[a])}

\* The widest window among the alerts of the cycle.
LongestLookahead(loadedAlerts) ==
    CHOOSE n \in {loadedAlerts[a].lookahead_days : a \in DOMAIN loadedAlerts} :
        \A a \in DOMAIN loadedAlerts : loadedAlerts[a].lookahead_days <= n

\* _load_candidate_forecasts
CandidateForecasts(loadedAlerts, date) ==
    {f \in Forecasts :
        /\ \E a \in DOMAIN loadedAlerts : ForecastField[f] = loadedAlerts[a].field_id
        /\ InWindow(ForecastDate[f], date, LongestLookahead(loadedAlerts))}

-----------------------------------------------------------------------------
(* What a cycle writes.                                                    *)

Reading(row, metric) == IF metric \in DOMAIN row THEN row[metric] ELSE NULL

\* The candidates come ordered by date, so the loop's break at the end of the
\* alert's own window considers exactly those before it.
Considers(w, a, f) ==
    /\ ForecastField[f] = found[w][a].field_id
    /\ ForecastDate[f] < day[w] + found[w][a].lookahead_days

\* Mutant: the snapshot is taken from the alert as it is in the table by now.
SnapshotOfCurrent(w, a, f) ==
    [ alert_id |-> a,
      weather_forecast_id |-> f,
      forecast_date |-> ForecastDate[f],
      metric |-> alerts[a].metric,
      operator |-> alerts[a].operator,
      threshold_value |-> alerts[a].threshold_value,
      lookahead_days |-> alerts[a].lookahead_days,
      triggered_value |-> Reading(candidates[w][f], found[w][a].metric),
      evaluated_on |-> day[w] ]

\* build_trigger_snapshot; evaluated_on is the cycle's date, for the properties.
Snapshot(w, a, f) ==
    [ alert_id |-> a,
      weather_forecast_id |-> f,
      forecast_date |-> ForecastDate[f],
      metric |-> found[w][a].metric,
      operator |-> found[w][a].operator,
      threshold_value |-> found[w][a].threshold_value,
      lookahead_days |-> found[w][a].lookahead_days,
      triggered_value |-> Reading(candidates[w][f], found[w][a].metric),
      evaluated_on |-> day[w] ]

\* The snapshots of the forecasts that match an alert of the cycle.
Matches(w) ==
    {Snapshot(w, p[1], p[2]) :
        p \in {q \in (DOMAIN found[w]) \X (DOMAIN candidates[w]) :
                  /\ Considers(w, q[1], q[2])
                  /\ CompareMetric(Reading(candidates[w][q[2]], found[w][q[1]].metric),
                                   found[w][q[1]].operator, found[w][q[1]].threshold_value)}}

\* Mutant: the conflict target also names the rule.
NewTriggersByRule(w) == Matches(w) \ triggers

\* ON CONFLICT (alert_id, weather_forecast_id) DO NOTHING
NewTriggers(w) == {t \in Matches(w) : \A old \in triggers : Key(old) # Key(t)}

\* Mutant: ON CONFLICT DO UPDATE.
StoredRefreshing(w) == {t \in triggers : \A new \in Matches(w) : Key(new) # Key(t)} \cup Matches(w)

Stored(w) == triggers \cup NewTriggers(w)

\* Mutant: a delivery is queued only if the alert is still live by now.
QueuedIfLive(w) ==
    {Key(t) : t \in {u \in NewTriggers(w) : IsLive(alerts[u.alert_id])}}

\* _create_delivery_if_missing, for each trigger that was inserted.
Queued(w) == {Key(t) : t \in NewTriggers(w)}

\* Mutant: the objects of the session are written back whole.
StampedWhole(w) ==
    [a \in AlertIds |-> IF a \in DOMAIN found[w]
                        THEN [found[w][a] EXCEPT !.last_evaluated_at = "set"]
                        ELSE alerts[a]]

\* The UPDATE of the alerts of the cycle: a new timestamp, and nothing else.
Stamped(w) ==
    [a \in AlertIds |-> IF a \in DOMAIN found[w]
                        THEN [alerts[a] EXCEPT !.last_evaluated_at = "set"]
                        ELSE alerts[a]]

-----------------------------------------------------------------------------
(* Steps of a cycle.                                                       *)

\* Mutant: the alerts of a cycle stay loaded for the next one.
EndCycleKeepingAlerts(w) ==
    /\ phase' = [phase EXCEPT ![w] = "asleep"]
    /\ day' = [day EXCEPT ![w] = 0]
    /\ candidates' = [candidates EXCEPT ![w] = Nothing]
    /\ UNCHANGED found

\* The session is gone.
EndCycle(w) ==
    /\ phase' = [phase EXCEPT ![w] = "asleep"]
    /\ day' = [day EXCEPT ![w] = 0]
    /\ found' = [found EXCEPT ![w] = Nothing]
    /\ candidates' = [candidates EXCEPT ![w] = Nothing]

\* The cycle starts with the current date and loads the live alerts; without
\* any it returns at once and changes nothing.
LoadAlerts(w) ==
    /\ phase[w] = "asleep"
    /\ LiveAlerts # {}
    /\ day' = [day EXCEPT ![w] = today]
    /\ found' = [found EXCEPT ![w] = [a \in LiveAlerts |-> alerts[a]]]
    /\ phase' = [phase EXCEPT ![w] = "forecasts"]
    /\ UNCHANGED << apiVars, weatherVars, triggers, deliveries, candidates, stamped, faults >>

LoadForecasts(w) ==
    /\ phase[w] = "forecasts"
    /\ candidates' = [candidates EXCEPT ![w] =
           [f \in CandidateForecasts(found[w], day[w]) |-> readings[f]]]
    /\ phase' = [phase EXCEPT ![w] = "insert"]
    /\ UNCHANGED << apiVars, weatherVars, triggers, deliveries, day, found, stamped, faults >>

CommitCycle(w) ==
    /\ phase[w] = "insert"
    /\ triggers' = Stored(w)
    /\ deliveries' = deliveries \cup Queued(w)
    /\ alerts' = Stamped(w)
    /\ stamped' = [a \in (DOMAIN stamped) \cup (DOMAIN found[w]) |->
                      IF a \in DOMAIN found[w] THEN Rule(found[w][a]) ELSE stamped[a]]
    /\ EndCycle(w)
    /\ UNCHANGED << apiLocals, weatherVars, faults >>

\* A crash or a database error: nothing of the cycle is committed.
CycleFails(w) ==
    /\ phase[w] # "asleep"
    /\ faults < MaxFaults
    /\ faults' = faults + 1
    /\ EndCycle(w)
    /\ UNCHANGED << apiVars, weatherVars, triggers, deliveries, stamped >>

-----------------------------------------------------------------------------
(* The environment.                                                        *)

\* The ingestion job, which is not part of the repository, stores a forecast.
\* A row without readings stands for one not ingested yet.
Ingest(f) ==
    /\ \E r \in Readings : readings' = [readings EXCEPT ![f] = r]
    /\ UNCHANGED << apiVars, today, triggers, deliveries, workerVars, stamped, faults >>

Midnight ==
    /\ today < MaxDay
    /\ today' = today + 1
    /\ UNCHANGED << apiVars, readings, triggers, deliveries, workerVars, stamped, faults >>

Init ==
    /\ ApiInit
    /\ readings = [f \in Forecasts |-> Nothing]
    /\ today = 0
    /\ triggers = {}
    /\ deliveries = {}
    /\ phase = [w \in Workers |-> "asleep"]
    /\ day = [w \in Workers |-> 0]
    /\ found = [w \in Workers |-> Nothing]
    /\ candidates = [w \in Workers |-> Nothing]
    /\ stamped = Nothing
    /\ faults = 0

Next ==
    \/ ApiNext /\ UNCHANGED evalVars
    \/ \E w \in Workers :
           \/ LoadAlerts(w)
           \/ LoadForecasts(w)
           \/ CommitCycle(w)
           \/ CycleFails(w)
    \/ \E f \in Forecasts : Ingest(f)
    \/ Midnight

Spec == Init /\ [][Next]_vars

-----------------------------------------------------------------------------
(* Properties.                                                             *)

\* Type invariant: a cycle holds alerts from its first statement on.
EvaluationTypeOK ==
    /\ phase \in [Workers -> {"asleep", "forecasts", "insert"}]
    /\ today \in 0..MaxDay
    /\ \A w \in Workers :
           /\ phase[w] = "asleep" <=> found[w] = Nothing
           /\ DOMAIN found[w] \subseteq AlertIds
           /\ DOMAIN candidates[w] \subseteq Forecasts
           /\ day[w] <= today
    /\ \A t \in triggers : t.alert_id \in AlertIds /\ t.weather_forecast_id \in Forecasts

\* An alert triggers at most once per forecast, though cycles are repeated,
\* fail, overlap, and the alert is edited between them (README.md:105, 117-120).
OneTriggerPerForecast == \A t, u \in triggers : Key(t) = Key(u) => t = u

\* Every trigger has its delivery row and every delivery row its trigger,
\* also when the alert is deleted before the cycle commits (jobs.py:157-169).
EveryTriggerIsQueued == deliveries = {Key(t) : t \in triggers}

\* A trigger's snapshot is true of itself: its value breaks its own threshold
\* and its date is in its own window, although the alert may have been edited
\* and the forecast replaced while the cycle ran (jobs.py:144-169).
SnapshotsAreConsistent ==
    \A t \in triggers :
        /\ ThresholdIsValid(t.metric, t.threshold_value)
        /\ CompareMetric(t.triggered_value, t.operator, t.threshold_value)
        /\ InWindow(t.forecast_date, t.evaluated_on, t.lookahead_days)

\* Nothing cancels or rewrites a trigger: not an edit or a delete of its alert,
\* not a new forecast, not another cycle (README.md:109).
TriggersAreKept == [][triggers \subseteq triggers']_vars

\* A cycle's commit takes back no edit and no delete that a request committed
\* while it ran (jobs.py:167).
CycleKeepsEdits ==
    [][\A w \in Workers : phase[w] = "insert" /\ phase'[w] = "asleep" =>
           \A a \in AlertIds : \A c \in DOMAIN alerts[a] \ {"last_evaluated_at"} :
               alerts'[a][c] = alerts[a][c]]_vars

\* Forecast f matches live alert a today.
MatchesToday(a, f) ==
    /\ a \in AlertIds
    /\ IsLive(alerts[a])
    /\ ForecastField[f] = alerts[a].field_id
    /\ InWindow(ForecastDate[f], today, alerts[a].lookahead_days)
    /\ CompareMetric(Reading(readings[f], alerts[a].metric), alerts[a].operator,
                     alerts[a].threshold_value)

=============================================================================
