--------------------------- MODULE MCClimateAlerts ---------------------------
(* ClimateAlerts.tla for TLC.                                                 *)
EXTENDS ClimateAlerts

\* A forecast for tomorrow,
MCForecastField == [f \in Forecasts |-> 1]
MCForecastDate == [f \in Forecasts |-> 1]

\* with a value that matches both rules, once it is ingested.
MCReadings == { [temp_min_c |-> 5] }

\* The short rule only looks at today; the long one may be created again after
\* a delete, so that two notifications queue.
MCShortRule == [ field_id |-> 1, metric |-> "temp_min_c", operator |-> "lt",
                 threshold_value |-> 10, lookahead_days |-> 1 ]
MCCreates == { MCShortRule, [MCShortRule EXCEPT !.lookahead_days = 2] }

\* The schedule is shorter than the retries.
MCBackoff == << 1 >>

=============================================================================
