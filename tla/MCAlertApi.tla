----------------------------- MODULE MCAlertApi -----------------------------
(* AlertApi.tla for TLC.                                                      *)
EXTENDS AlertApi

\* Two alerts of one field: a temperature rule and a probability rule.
MCCreates ==
    { [field_id |-> 1, metric |-> "temp_min_c", operator |-> "lt",
       threshold_value |-> 10, lookahead_days |-> 1],
      [field_id |-> 1, metric |-> "rain_probability_pct", operator |-> "lt",
       threshold_value |-> 10, lookahead_days |-> 1] }

\* Payloads that can make the two rules collide, a metric and a threshold that
\* do not fit each other though each fits the row as created, both ways to
\* switch an alert, a null that only the table refuses, a threshold wider than
\* the 8 bits an INTEGER has here, and a lookahead beyond the schema's bounds.
MCPatches ==
    { [metric |-> "rain_probability_pct"],
      [metric |-> "temp_min_c"],
      [threshold_value |-> 101],
      [is_active |-> TRUE],
      [is_active |-> FALSE],
      [operator |-> NULL],
      [threshold_value |-> 128],
      [lookahead_days |-> 31] }

\* alerts/api.py:80, "Deleted alerts cannot be updated".
DeletedIsNotUpdated ==
    [][\A a \in AlertIds : alerts[a].deleted_at # NULL => Rule(alerts'[a]) = Rule(alerts[a])]_apiVars

=============================================================================
