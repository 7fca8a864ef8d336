----------------------------- MODULE AlertRules -----------------------------
(***************************************************************************)
(* The rules of an alert: which thresholds fit a metric, when a forecast   *)
(* value matches, which forecast dates it looks at                         *)
(* (app/modules/alerts: evaluator.py, validation.py, models.py,            *)
(* service.py).  Pure operators, shared by the API and the worker.         *)
(***************************************************************************)
EXTENDS Integers

CONSTANT NULL

ProbabilityMetrics == {"rain_probability_pct", "snow_probability_pct"}

NonNegativeMetrics ==
    ProbabilityMetrics \cup {"rain_mm", "snow_mm", "wind_speed_mps", "wind_gust_mps"}

Metrics == NonNegativeMetrics \cup {"temp_min_c", "temp_max_c"}

Operators == {"lt", "lte", "gt", "gte"}

\* Mutant: the upper bound of a probability is forgotten.
ThresholdIsNotNegative(metric, threshold) ==
    /\ metric \in Metrics
    /\ threshold # NULL
    /\ metric \in NonNegativeMetrics => threshold >= 0

\* ensure_threshold_value_is_valid in the validators of the API. A null metric
\* or threshold does not validate.
ThresholdIsValid(metric, threshold) ==
    /\ metric \in Metrics
    /\ threshold # NULL
    /\ metric \in ProbabilityMetrics => threshold \in 0..100
    /\ metric \in NonNegativeMetrics => threshold >= 0

\* compare_metric: a missing value matches nothing.
CompareMetric(value, operator, threshold) ==
    /\ value # NULL
    /\ \/ operator = "lt" /\ value < threshold
       \/ operator = "lte" /\ value <= threshold
       \/ operator = "gt" /\ value > threshold
       \/ operator = "gte" /\ value >= threshold

\* today and the next lookahead - 1 days.
InWindow(date, today, lookahead) == today <= date /\ date < today + lookahead

-----------------------------------------------------------------------------
(* A row of alerts: field_id, metric, operator, threshold_value,           *)
(* lookahead_days, is_active, deleted_at and last_evaluated_at.  The two   *)
(* timestamps are NULL or "set".                                           *)

IsLive(alert) == alert.is_active = TRUE /\ alert.deleted_at = NULL

\* The columns of uq_alerts_active_rule.
Rule(alert) == << alert.field_id, alert.metric, alert.operator, alert.threshold_value,
                  alert.lookahead_days >>

LookaheadIsValid(lookahead) == lookahead \in 1..30

\* threshold_probability_bounds and threshold_non_negative_for_metric.
ThresholdChecks(metric, threshold) ==
    /\ metric \notin {"rain_probability_pct", "snow_probability_pct"} \/ threshold \in 0..100
    /\ metric \notin {"rain_mm", "snow_mm", "wind_speed_mps", "wind_gust_mps"} \/ threshold >= 0

\* The NOT NULL and CHECK constraints of the table.
AlertChecks(alert) ==
    /\ \A c \in DOMAIN alert \ {"deleted_at", "last_evaluated_at"} : alert[c] # NULL
    /\ LookaheadIsValid(alert.lookahead_days)
    /\ ThresholdChecks(alert.metric, alert.threshold_value)
    /\ alert.deleted_at # NULL => alert.is_active = FALSE

=============================================================================
