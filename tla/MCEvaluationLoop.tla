-------------------------- MODULE MCEvaluationLoop --------------------------
(* EvaluationLoop.tla for TLC.                                                *)
EXTENDS EvaluationLoop, TLC

\* One field with a forecast for day 0 and one for day 1.
MCForecastField == [f \in Forecasts |-> 1]
MCForecastDate == [f \in Forecasts |-> f - 1]
MCReadings == { [temp_min_c |-> 5] }

\* An alert on day 0 only, and one that also looks at the next day.
MCShortRule == [field_id |-> 1, metric |-> "temp_min_c", operator |-> "lt",
                threshold_value |-> 10, lookahead_days |-> 1]
MCCreates == { MCShortRule, [MCShortRule EXCEPT !.lookahead_days = 2] }

\* The workers do the same.
MCSymmetry == Permutations(Workers)

=============================================================================
