---------------------------- MODULE MCEvaluation ----------------------------
(* Evaluation.tla for TLC.                                                    *)
EXTENDS Evaluation, TLC

\* One field with a forecast for day 0 and one for day 1.
MCForecastField == [f \in Forecasts |-> 1]
MCForecastDate == [f \in Forecasts |-> f - 1]

\* A value below the alert's threshold and one below the raised threshold only.
MCReadings == { [temp_min_c |-> 5], [temp_min_c |-> 15] }

\* An alert on day 0 only.
MCShortRule == [field_id |-> 1, metric |-> "temp_min_c", operator |-> "lt",
                threshold_value |-> 10, lookahead_days |-> 1]

MCCreates == {MCShortRule}

\* Edits that end a match, by the threshold or by a column without a value.
MCPatches == { [threshold_value |-> 0], [metric |-> "temp_max_c"] }

\* An edit that leaves an alert matching under another rule, and one that ends
\* the match.
MCEdits == { [lookahead_days |-> 2], [threshold_value |-> 0] }
MCOneReading == { [temp_min_c |-> 5] }

\* The workers do the same.
MCSymmetry == Permutations(Workers)

\* tests/integration/test_api.py:272 and 317: an edit resets last_evaluated_at,
\* so that an alert bearing a stamp was evaluated under the rule it has.
StampIsCurrent ==
    \A a \in AlertIds :
        alerts[a].last_evaluated_at # NULL =>
            a \in DOMAIN stamped /\ stamped[a] = Rule(alerts[a])

=============================================================================
