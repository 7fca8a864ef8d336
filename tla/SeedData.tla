------------------------------ MODULE SeedData ------------------------------
(***************************************************************************)
(* The demo data that app/cli.py makes up, and the constraints of          *)
(* weather_forecasts that it must satisfy.  Pure operators: field_index    *)
(* counts the fields from 1, offset the days from 0, template_offset the   *)
(* alerts of a field from 0.                                               *)
(***************************************************************************)
EXTENDS AlertRules

ASSUME NullAssumption == NULL \notin Metrics \cup Operators \cup Int \cup BOOLEAN

\* The CHECKs of weather_forecasts.
ForecastChecks(row) ==
    /\ \A m \in ProbabilityMetrics : row[m] # NULL => row[m] \in 0..100
    /\ \A m \in NonNegativeMetrics \ ProbabilityMetrics : row[m] # NULL => row[m] >= 0
    /\ row.temp_min_c # NULL /\ row.temp_max_c # NULL => row.temp_min_c <= row.temp_max_c

SmallerOf(a, b) == IF a <= b THEN a ELSE b

-----------------------------------------------------------------------------
(* _forecast_values                                                        *)

RainEvent(field_index, offset) == (field_index + offset) % 3 = 0

SnowEvent(field_index, offset) ==
    field_index % 7 \in {0, 1} /\ offset \in {1, 2, 5, 9, 12}

TempMin(field_index, offset) == -5 + ((field_index % 6) - 3) + (offset \div 4)

WindSpeed(field_index, offset) == 5 + ((field_index * 2 + offset) % 11)

\* Mutant: the remainder that keeps a probability below 100 is forgotten.
SnowProbabilityUnbounded(field_index, offset) ==
    IF offset % 5 = 0 THEN NULL ELSE 55 + field_index + offset

SnowProbability(field_index, offset) ==
    IF offset % 5 = 0 THEN NULL
    ELSE IF SnowEvent(field_index, offset) THEN 55 + ((field_index + offset) % 30)
    ELSE 5 + ((field_index + offset) % 20)

ForecastValues(field_index, offset) ==
    [ temp_min_c |-> TempMin(field_index, offset),
      temp_max_c |-> TempMin(field_index, offset) + 11 + ((field_index + offset) % 6),
      rain_mm |-> IF RainEvent(field_index, offset)
                  THEN 14 + (field_index % 8) + (offset % 5) ELSE 0,
      rain_probability_pct |-> IF offset % 6 = 0 THEN NULL
                               ELSE 25 + ((field_index * 11 + offset * 7) % 70),
      snow_mm |-> IF SnowEvent(field_index, offset)
                  THEN 1 + ((field_index + offset) % 4) ELSE 0,
      snow_probability_pct |-> SnowProbability(field_index, offset),
      wind_speed_mps |-> WindSpeed(field_index, offset),
      wind_gust_mps |-> WindSpeed(field_index, offset) + 4 + (field_index % 7) ]

-----------------------------------------------------------------------------
(* Alerts.                                                                 *)

Template(metric, operator, threshold, lookahead) ==
    [ metric |-> metric, operator |-> operator, threshold_value |-> threshold,
      lookahead_days |-> lookahead ]

AlertTemplates ==
    << Template("temp_min_c", "lte", 0, 5),
       Template("rain_mm", "gte", 18, 4),
       Template("wind_gust_mps", "gte", 16, 7),
       Template("temp_max_c", "gte", 30, 4),
       Template("rain_probability_pct", "gte", 60, 6),
       Template("snow_mm", "gte", 2, 5),
       Template("snow_probability_pct", "gte", 55, 5),
       Template("wind_speed_mps", "gte", 12, 6) >>

\* Mutant: the template depends on the field alone.
TemplateOfField(field_index, template_offset) == AlertTemplates[1 + ((field_index - 1) % 8)]

TemplateFor(field_index, template_offset) ==
    AlertTemplates[1 + ((field_index + template_offset - 1) % 8)]

Adjustment(field_index, template_offset) == (field_index + template_offset) % 3

ThresholdFor(template, field_index, template_offset) ==
    LET adjustment == Adjustment(field_index, template_offset) IN
    IF template.metric \in ProbabilityMetrics
    THEN SmallerOf(template.threshold_value + adjustment * 5, 100)
    ELSE IF template.metric = "temp_min_c" THEN template.threshold_value - adjustment
    ELSE template.threshold_value + adjustment

\* The alert of a field, as the loop of seed_demo adds it.
SeededAlert(field_index, template_offset) ==
    LET template == TemplateFor(field_index, template_offset) IN
    [ field_id |-> field_index,
      metric |-> template.metric,
      operator |-> template.operator,
      threshold_value |-> ThresholdFor(template, field_index, template_offset),
      lookahead_days |->
          SmallerOf(template.lookahead_days + Adjustment(field_index, template_offset), 30),
      is_active |-> TRUE,
      deleted_at |-> NULL,
      last_evaluated_at |-> NULL ]

SeededForecasts(fields, days) ==
    {ForecastValues(i, o) : i \in 1..fields, o \in 0..(days - 1)}

SeededAlerts(fields) == {SeededAlert(i, o) : i \in 1..fields, o \in 0..2}

\* The database takes the whole data set of a seed command: every forecast
\* passes its CHECKs, every alert its own, and no two alerts share a rule.
SeedIsStorable(fields, days) ==
    /\ \A row \in SeededForecasts(fields, days) : ForecastChecks(row)
    /\ \A alert \in SeededAlerts(fields) : AlertChecks(alert)
    /\ \A i \in 1..fields : \A o, p \in 0..2 :
           Rule(SeededAlert(i, o)) = Rule(SeededAlert(i, p)) => o = p

=============================================================================
