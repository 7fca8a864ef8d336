-------------------------- MODULE EvaluationProofs --------------------------
(***************************************************************************)
(* Theorems about Evaluation.tla: any number of workers evaluate beside    *)
(* any requests.                                                           *)
(*                                                                         *)
(* The invariant says what a cycle holds between its statements: the       *)
(* alerts are rows that were live and satisfied the CHECKs when it loaded  *)
(* them, though they may have changed or been deleted since, and the       *)
(* candidates are not before its date (CyclesOK).  That is all a trigger   *)
(* is made of, so nothing about the tables at the time of the commit is    *)
(* needed but that ON CONFLICT sees the triggers of other cycles.          *)
(***************************************************************************)
EXTENDS Evaluation, AlertApiProofs

-----------------------------------------------------------------------------
(* The tables seen by a cycle.                                             *)

\* Alerts are created and never removed.
LEMMA AlertsStay ==
    ASSUME ApiInv, [ApiNext]_apiVars
    PROVE  AlertIds \subseteq AlertIds'
<1>1. ApiTypeOK'
    BY ApiStep DEF ApiInv
<1>2. ASSUME NEW r \in Requests, Create(r) PROVE AlertIds \subseteq AlertIds'
    <2>1. PICK row : alerts' = Append(alerts, row)
        BY <1>2 DEF Create
    <2>2. alerts \in Seq(AlertRow \cup {row})
        BY DEF ApiInv, ApiTypeOK
    <2>3. Len(alerts') = Len(alerts) + 1
        BY <2>1, <2>2, AppendProperties
    <2>4. /\ Len(alerts) \in Nat /\ AlertIds = 1..Len(alerts)
          /\ AlertIds' = 1..Len(alerts')
        BY <1>1, Ids, LenProperties DEF ApiInv, ApiTypeOK, AlertIds
    <2> QED
        BY <2>3, <2>4
<1>3. ASSUME NEW r \in Requests, CommitRequest(r) PROVE AlertIds \subseteq AlertIds'
    BY <1>3, CommittedTable DEF CommitRequest, AlertIds
<1> QED
    BY <1>2, <1>3
        DEF ApiNext, LoadForPatch, LoadForDelete, Load, RefuseRequest, apiVars, AlertIds

\* The stamp changes one column that no constraint is about.
LEMMA StampedTable ==
    ASSUME ApiInv, NEW w \in Workers
    PROVE  /\ Stamped(w) \in Seq(AlertRow)
           /\ DOMAIN Stamped(w) = AlertIds
           /\ \A a \in AlertIds :
                  /\ Stamped(w)[a] \in AlertRow
                  /\ \A c \in Columns \ {"last_evaluated_at"} : Stamped(w)[a][c] = alerts[a][c]
<1>1. /\ Len(alerts) \in Nat /\ AlertIds = 1..Len(alerts)
      /\ \A a \in AlertIds : alerts[a] \in AlertRow
    BY Ids DEF ApiInv
<1>2. \A a \in AlertIds :
          /\ Stamped(w)[a] \in AlertRow
          /\ \A c \in Columns \ {"last_evaluated_at"} : Stamped(w)[a][c] = alerts[a][c]
    BY <1>1 DEF Stamped, AlertRow, Columns
<1>3. Stamped(w) \in [1..Len(alerts) -> AlertRow]
    BY <1>1, <1>2 DEF Stamped
<1>4. Stamped(w) \in Seq(AlertRow)
    BY <1>1, <1>3, SeqDef
<1> QED
    BY <1>2, <1>4 DEF Stamped

\* So a stamp keeps what the requests rely on.
LEMMA StampKeepsApi ==
    ASSUME ApiInv, NEW w \in Workers, alerts' = Stamped(w), UNCHANGED apiLocals
    PROVE  ApiInv' /\ AlertIds' = AlertIds
<1>1. /\ alerts' \in Seq(AlertRow) /\ AlertIds' = AlertIds
      /\ \A a \in AlertIds :
             /\ alerts'[a] \in AlertRow /\ alerts[a] \in AlertRow
             /\ \A c \in Columns \ {"last_evaluated_at"} : alerts'[a][c] = alerts[a][c]
    BY StampedTable, Ids DEF ApiInv, AlertIds
<1>2. ApiTypeOK' /\ SessionsOK'
    BY <1>1 DEF ApiInv, ApiTypeOK, SessionsOK, apiLocals, SchemaAccepts, Patched
<1>3. StoredChecked'
    <2> SUFFICES ASSUME NEW a \in AlertIds PROVE AlertChecks(alerts'[a])
        BY <1>1 DEF StoredChecked, AlertChecks, LookaheadIsValid, ThresholdChecks
    <2>1. AlertChecks(alerts[a]) /\ DOMAIN alerts[a] = Columns /\ DOMAIN alerts'[a] = Columns
        BY <1>1, RowColumns DEF ApiInv, StoredChecked
    <2>2. \A c \in Columns \ {"last_evaluated_at"} : alerts'[a][c] = alerts[a][c]
        BY <1>1
    <2>3. \A c \in DOMAIN alerts'[a] \ {"deleted_at", "last_evaluated_at"} : alerts'[a][c] # NULL
        BY <2>1, <2>2 DEF AlertChecks
    <2>4. /\ alerts'[a].lookahead_days = alerts[a].lookahead_days
          /\ alerts'[a].metric = alerts[a].metric
          /\ alerts'[a].threshold_value = alerts[a].threshold_value
          /\ alerts'[a].deleted_at = alerts[a].deleted_at
          /\ alerts'[a].is_active = alerts[a].is_active
        BY <2>2 DEF Columns
    <2> QED
        BY <2>1, <2>3, <2>4 DEF AlertChecks
<1>4. LiveRulesDiffer'
    <2>1. \A a \in AlertIds :
              /\ alerts'[a].is_active = alerts[a].is_active
              /\ alerts'[a].deleted_at = alerts[a].deleted_at
              /\ alerts'[a].field_id = alerts[a].field_id
              /\ alerts'[a].metric = alerts[a].metric
              /\ alerts'[a].operator = alerts[a].operator
              /\ alerts'[a].threshold_value = alerts[a].threshold_value
              /\ alerts'[a].lookahead_days = alerts[a].lookahead_days
        BY <1>1 DEF Columns
    <2> QED
        BY <1>1, <2>1 DEF ApiInv, LiveRulesDiffer, IsLive, Rule
<1> QED
    BY <1>1, <1>2, <1>3, <1>4 DEF ApiInv

-----------------------------------------------------------------------------
(* The invariant.                                                          *)

\* What a cycle holds: alerts as they were when loaded, live and checked, and
\* candidates that are not before its date.
CyclesOK ==
    /\ day \in [Workers -> Int]
    /\ found = [w \in Workers |-> found[w]]
    /\ candidates = [w \in Workers |-> candidates[w]]
    /\ \A w \in Workers :
           /\ \A a \in DOMAIN found[w] : found[w][a] \in AlertRow /\ AlertChecks(found[w][a])
           /\ \A f \in DOMAIN candidates[w] : day[w] <= ForecastDate[f]
           /\ phase[w] # "insert" => candidates[w] = Nothing

EvalInv ==
    /\ ApiInv
    /\ EvaluationTypeOK
    /\ CyclesOK
    /\ OneTriggerPerForecast
    /\ EveryTriggerIsQueued
    /\ SnapshotsAreConsistent

\* The parts of the invariant that only the cycles and the days move.
CycleLocals == EvaluationTypeOK /\ CyclesOK

\* The parts that only a commit moves.
TriggerTable == OneTriggerPerForecast /\ EveryTriggerIsQueued /\ SnapshotsAreConsistent

\* At first nothing is found and nothing has triggered.
LEMMA EvalInitInv == Init => EvalInv
<1> SUFFICES ASSUME Init PROVE EvalInv
    OBVIOUS
<1>1. ApiInv
    BY ApiInitInv DEF Init
<1>2. DOMAIN Nothing = {}
    BY DEF Nothing
<1>3. EvaluationTypeOK /\ CyclesOK
    BY <1>2, EvaluationAssumption DEF Init, EvaluationTypeOK, CyclesOK
<1>4. TriggerTable
    BY DEF Init, TriggerTable, OneTriggerPerForecast, EveryTriggerIsQueued, SnapshotsAreConsistent
<1> QED
    BY <1>1, <1>3, <1>4 DEF EvalInv, TriggerTable

\* A step that leaves the triggers alone leaves what they promise.
LEMMA SameTriggers ==
    ASSUME TriggerTable, triggers' = triggers, deliveries' = deliveries
    PROVE  TriggerTable'
BY DEF TriggerTable, OneTriggerPerForecast, EveryTriggerIsQueued, SnapshotsAreConsistent, Key

\* A step moves the locals of one cycle only.
OnlyMoves(w) ==
    /\ phase' \in [Workers -> {"asleep", "forecasts", "insert"}]
    /\ day' \in [Workers -> Int]
    /\ found' = [v \in Workers |-> found'[v]]
    /\ candidates' = [v \in Workers |-> candidates'[v]]
    /\ \A v \in Workers \ {w} : /\ day'[v] = day[v] /\ found'[v] = found[v]
                                /\ phase'[v] = phase[v] /\ candidates'[v] = candidates[v]

\* The locals of a cycle are in order.
InOrder(w) ==
    /\ phase[w] = "asleep" <=> found[w] = Nothing
    /\ DOMAIN found[w] \subseteq AlertIds
    /\ \A a \in DOMAIN found[w] : found[w][a] \in AlertRow /\ AlertChecks(found[w][a])
    /\ DOMAIN candidates[w] \subseteq Forecasts
    /\ \A f \in DOMAIN candidates[w] : day[w] <= ForecastDate[f]
    /\ phase[w] # "insert" => candidates[w] = Nothing
    /\ day[w] <= today

\* A step that moves one cycle, to locals that are in order.
LEMMA OneCycleMoves ==
    ASSUME EvalInv, NEW w \in Workers, OnlyMoves(w), InOrder(w)',
           today' = today, AlertIds' = AlertIds,
           \A t \in triggers' : t.alert_id \in AlertIds /\ t.weather_forecast_id \in Forecasts
    PROVE  CycleLocals'
<1>1. \A v \in Workers \ {w} : InOrder(v)
    BY DEF InOrder, EvalInv, EvaluationTypeOK, CyclesOK
<1>2. ASSUME NEW v \in Workers \ {w} PROVE InOrder(v)'
    <2>1. /\ day'[v] = day[v] /\ found'[v] = found[v]
          /\ phase'[v] = phase[v] /\ candidates'[v] = candidates[v]
        BY DEF OnlyMoves
    <2>2. InOrder(v)
        BY <1>1
    <2> QED
        BY <2>1, <2>2 DEF InOrder, Nothing
<1>3. \A v \in Workers : InOrder(v)'
    BY <1>2
<1>4. EvaluationTypeOK'
    BY <1>3 DEF InOrder, OnlyMoves, EvaluationTypeOK, EvalInv
<1>5. CyclesOK'
    BY <1>3 DEF InOrder, OnlyMoves, CyclesOK
<1> QED
    BY <1>4, <1>5 DEF CycleLocals

\* The locals are functions of the workers.
LEMMA Locals ==
    ASSUME EvalInv, NEW w \in Workers
    PROVE  /\ phase \in [Workers -> {"asleep", "forecasts", "insert"}]
           /\ day \in [Workers -> Int]
           /\ found = [v \in Workers |-> found[v]]
           /\ candidates = [v \in Workers |-> candidates[v]]
           /\ InOrder(w)
           /\ today \in Int
           /\ DOMAIN Nothing = {}
BY EvaluationAssumption DEF EvalInv, EvaluationTypeOK, CyclesOK, InOrder, Nothing

\* The first statement of a cycle.
LEMMA LoadAlertsStep ==
    ASSUME EvalInv, NEW w \in Workers, LoadAlerts(w)
    PROVE  EvalInv'
<1> DEFINE rows == [a \in LiveAlerts |-> alerts[a]]
<1>1. /\ phase[w] = "asleep" /\ LiveAlerts # {}
      /\ day' = [day EXCEPT ![w] = today]
      /\ found' = [found EXCEPT ![w] = rows]
      /\ phase' = [phase EXCEPT ![w] = "forecasts"]
      /\ UNCHANGED << apiVars, today, triggers, deliveries, candidates >>
    BY DEF LoadAlerts, weatherVars
<1>2. ApiInv' /\ AlertIds' = AlertIds
    BY <1>1, ApiStep DEF EvalInv, apiVars, AlertIds
<1>3. DOMAIN rows # {} /\ DOMAIN rows \subseteq AlertIds
      /\ \A a \in DOMAIN rows : rows[a] \in AlertRow /\ AlertChecks(rows[a])
    BY <1>1, Ids DEF EvalInv, ApiInv, StoredChecked, LiveAlerts
<1> HIDE DEF rows
<1>4. OnlyMoves(w) /\ found'[w] = rows /\ day'[w] = today /\ phase'[w] = "forecasts"
    BY <1>1, Locals DEF OnlyMoves
<1>5. candidates'[w] = Nothing
    BY <1>1, Locals DEF InOrder
<1>6. rows # Nothing /\ DOMAIN candidates'[w] = {}
    BY <1>3, <1>5, Locals
<1>7. InOrder(w)'
    BY <1>1, <1>2, <1>3, <1>4, <1>5, <1>6, Locals DEF InOrder, Nothing
<1>8. CycleLocals'
    BY <1>1, <1>2, <1>4, <1>7, OneCycleMoves DEF EvalInv, EvaluationTypeOK
<1> QED
    BY <1>1, <1>2, <1>8, SameTriggers DEF EvalInv, TriggerTable, CycleLocals

\* The second: only forecasts from the cycle's date on.
LEMMA LoadForecastsStep ==
    ASSUME EvalInv, NEW w \in Workers, LoadForecasts(w)
    PROVE  EvalInv'
<1> DEFINE rows == [f \in CandidateForecasts(found[w], day[w]) |-> readings[f]]
<1>1. /\ phase[w] = "forecasts"
      /\ candidates' = [candidates EXCEPT ![w] = rows]
      /\ phase' = [phase EXCEPT ![w] = "insert"]
      /\ UNCHANGED << apiVars, today, triggers, deliveries, day, found >>
    BY DEF LoadForecasts, weatherVars
<1>2. ApiInv' /\ AlertIds' = AlertIds
    BY <1>1, ApiStep DEF EvalInv, apiVars, AlertIds
<1>3. DOMAIN rows \subseteq Forecasts /\ \A f \in DOMAIN rows : day[w] <= ForecastDate[f]
    BY DEF CandidateForecasts, InWindow
<1> HIDE DEF rows
<1>4. /\ OnlyMoves(w) /\ candidates'[w] = rows /\ phase'[w] = "insert"
      /\ found'[w] = found[w] /\ day'[w] = day[w]
    BY <1>1, Locals DEF OnlyMoves
<1>5. InOrder(w)'
    BY <1>1, <1>2, <1>3, <1>4, Locals
        DEF InOrder, Nothing
<1>6. CycleLocals'
    BY <1>1, <1>2, <1>4, <1>5, OneCycleMoves DEF EvalInv, EvaluationTypeOK
<1> QED
    BY <1>1, <1>2, <1>6, SameTriggers DEF EvalInv, TriggerTable, CycleLocals

\* A cycle that ends, by its commit or by a fault, holds nothing.
LEMMA EndCycleLocals ==
    ASSUME EvalInv, NEW w \in Workers, EndCycle(w), today' = today, AlertIds' = AlertIds,
           \A t \in triggers' : t.alert_id \in AlertIds /\ t.weather_forecast_id \in Forecasts
    PROVE  CycleLocals'
<1>1. /\ phase' = [phase EXCEPT ![w] = "asleep"] /\ day' = [day EXCEPT ![w] = 0]
      /\ found' = [found EXCEPT ![w] = Nothing]
      /\ candidates' = [candidates EXCEPT ![w] = Nothing]
    BY DEF EndCycle
<1>2. /\ found' = [v \in Workers |-> found'[v]] /\ found'[w] = Nothing
      /\ \A v \in Workers \ {w} : found'[v] = found[v]
    BY <1>1, Locals
<1>3. /\ candidates' = [v \in Workers |-> candidates'[v]] /\ candidates'[w] = Nothing
      /\ \A v \in Workers \ {w} : candidates'[v] = candidates[v]
    BY <1>1, Locals
<1>4. /\ phase' \in [Workers -> {"asleep", "forecasts", "insert"}] /\ phase'[w] = "asleep"
      /\ \A v \in Workers \ {w} : phase'[v] = phase[v]
    BY <1>1, Locals
<1>5. /\ day' \in [Workers -> Int] /\ day'[w] = 0
      /\ \A v \in Workers \ {w} : day'[v] = day[v]
    BY <1>1, Locals
<1>6. OnlyMoves(w) /\ found'[w] = Nothing /\ candidates'[w] = Nothing
    BY <1>2, <1>3, <1>4, <1>5 DEF OnlyMoves
<1>7. 0 <= today
    BY EvaluationAssumption DEF EvalInv, EvaluationTypeOK
<1>8. InOrder(w)'
    BY <1>4, <1>5, <1>6, <1>7, Locals DEF InOrder, Nothing
<1> QED
    BY <1>6, <1>8, OneCycleMoves

\* What a cycle would insert: one snapshot per alert and forecast, each true of
\* itself.
LEMMA MatchesAreSnapshots ==
    ASSUME EvalInv, NEW w \in Workers
    PROVE  /\ \A t \in Matches(w) :
                  /\ t.alert_id \in AlertIds /\ t.weather_forecast_id \in Forecasts
                  /\ ThresholdIsValid(t.metric, t.threshold_value)
                  /\ CompareMetric(t.triggered_value, t.operator, t.threshold_value)
                  /\ InWindow(t.forecast_date, t.evaluated_on, t.lookahead_days)
           /\ \A t, u \in Matches(w) : Key(t) = Key(u) => t = u
<1>1. /\ DOMAIN found[w] \subseteq AlertIds /\ DOMAIN candidates[w] \subseteq Forecasts
      /\ \A a \in DOMAIN found[w] : found[w][a] \in AlertRow /\ AlertChecks(found[w][a])
      /\ \A f \in DOMAIN candidates[w] : day[w] <= ForecastDate[f]
    BY DEF EvalInv, CyclesOK, EvaluationTypeOK
<1>2. \A t \in Matches(w) :
          \E a \in DOMAIN found[w], f \in DOMAIN candidates[w] :
              /\ t = Snapshot(w, a, f)
              /\ Considers(w, a, f)
              /\ CompareMetric(Reading(candidates[w][f], found[w][a].metric),
                               found[w][a].operator, found[w][a].threshold_value)
    BY DEF Matches
<1>3. ASSUME NEW t \in Matches(w)
      PROVE  /\ t.alert_id \in AlertIds /\ t.weather_forecast_id \in Forecasts
             /\ ThresholdIsValid(t.metric, t.threshold_value)
             /\ CompareMetric(t.triggered_value, t.operator, t.threshold_value)
             /\ InWindow(t.forecast_date, t.evaluated_on, t.lookahead_days)
    <2>1. PICK a \in DOMAIN found[w], f \in DOMAIN candidates[w] :
              /\ t = Snapshot(w, a, f)
              /\ Considers(w, a, f)
              /\ CompareMetric(Reading(candidates[w][f], found[w][a].metric),
                               found[w][a].operator, found[w][a].threshold_value)
        BY <1>2
    <2>2. ThresholdIsValid(found[w][a].metric, found[w][a].threshold_value)
        BY <1>1, CheckedThreshold
    <2>3. InWindow(ForecastDate[f], day[w], found[w][a].lookahead_days)
        BY <1>1, <2>1 DEF InWindow, Considers
    <2> QED
        BY <1>1, <2>1, <2>2, <2>3 DEF Snapshot
<1>4. ASSUME NEW t \in Matches(w), NEW u \in Matches(w), Key(t) = Key(u) PROVE t = u
    <2>1. PICK a \in DOMAIN found[w], f \in DOMAIN candidates[w] : t = Snapshot(w, a, f)
        BY <1>2
    <2>2. PICK b \in DOMAIN found[w], g \in DOMAIN candidates[w] : u = Snapshot(w, b, g)
        BY <1>2
    <2>3. a = b /\ f = g
        BY <1>4, <2>1, <2>2 DEF Key, Snapshot
    <2> QED
        BY <2>1, <2>2, <2>3
<1> QED
    BY <1>3, <1>4

\* The commit inserts what is not there by then, and queues what it inserts.
LEMMA CommitTriggers ==
    ASSUME EvalInv, NEW w \in Workers,
           triggers' = Stored(w), deliveries' = deliveries \cup Queued(w)
    PROVE  TriggerTable'
<1>1. OneTriggerPerForecast'
    BY MatchesAreSnapshots DEF EvalInv, OneTriggerPerForecast, Stored, NewTriggers, Key
<1>2. EveryTriggerIsQueued'
    BY DEF EvalInv, EveryTriggerIsQueued, Stored, Queued, Key
<1>3. SnapshotsAreConsistent'
    BY MatchesAreSnapshots DEF EvalInv, SnapshotsAreConsistent, Stored, NewTriggers
<1> QED
    BY <1>1, <1>2, <1>3 DEF TriggerTable

\* The commit of a cycle: the new triggers match, and the stamps disturb no rule.
LEMMA CommitCycleStep ==
    ASSUME EvalInv, NEW w \in Workers, CommitCycle(w)
    PROVE  EvalInv'
<1>1. /\ triggers' = Stored(w) /\ deliveries' = deliveries \cup Queued(w)
      /\ alerts' = Stamped(w) /\ EndCycle(w)
      /\ UNCHANGED << apiLocals, today >>
    BY DEF CommitCycle, weatherVars
<1>2. ApiInv' /\ AlertIds' = AlertIds
    BY <1>1, StampKeepsApi DEF EvalInv
<1>3. \A t \in triggers' : t.alert_id \in AlertIds /\ t.weather_forecast_id \in Forecasts
    BY <1>1, MatchesAreSnapshots DEF EvalInv, EvaluationTypeOK, Stored, NewTriggers
<1>4. CycleLocals'
    BY <1>1, <1>2, <1>3, EndCycleLocals
<1>5. TriggerTable'
    BY <1>1, CommitTriggers
<1> QED
    BY <1>2, <1>4, <1>5 DEF EvalInv, CycleLocals, TriggerTable

\* A cycle that fails changes no table.
LEMMA CycleFailsStep ==
    ASSUME EvalInv, NEW w \in Workers, CycleFails(w)
    PROVE  EvalInv'
<1>1. EndCycle(w) /\ UNCHANGED << apiVars, today, triggers, deliveries >>
    BY DEF CycleFails, weatherVars
<1>2. ApiInv' /\ AlertIds' = AlertIds
    BY <1>1, ApiStep DEF EvalInv, apiVars, AlertIds
<1>3. CycleLocals'
    BY <1>1, <1>2, EndCycleLocals DEF EvalInv, EvaluationTypeOK
<1> QED
    BY <1>1, <1>2, <1>3, SameTriggers DEF EvalInv, CycleLocals, TriggerTable

\* Whatever leaves the cycles and the triggers alone, and creates alerts at
\* most: a request, an ingestion, a midnight.
LEMMA OtherStep ==
    ASSUME EvalInv, ApiInv', AlertIds \subseteq AlertIds',
           today' \in 0..MaxDay, today <= today',
           UNCHANGED << workerVars, triggers, deliveries >>
    PROVE  EvalInv'
<1>1. EvaluationTypeOK'
    BY EvaluationAssumption DEF EvalInv, EvaluationTypeOK, CyclesOK, workerVars, Nothing
<1>2. CyclesOK'
    BY DEF EvalInv, CyclesOK, workerVars, Nothing, AlertChecks, LookaheadIsValid, ThresholdChecks
<1>3. TriggerTable'
    BY SameTriggers DEF EvalInv, TriggerTable
<1> QED
    BY <1>1, <1>2, <1>3 DEF EvalInv, TriggerTable

\* The invariant is inductive: one step per action.
LEMMA EvalStep == EvalInv /\ [Next]_vars => EvalInv'
<1> SUFFICES ASSUME EvalInv, [Next]_vars PROVE EvalInv'
    OBVIOUS
<1>0. today \in 0..MaxDay /\ today <= today
    BY EvaluationAssumption DEF EvalInv, EvaluationTypeOK
<1>1. CASE ApiNext /\ UNCHANGED evalVars
    <2>1. ApiInv' /\ AlertIds \subseteq AlertIds'
        BY <1>1, ApiStep, AlertsStay DEF EvalInv
    <2> QED
        BY <1>0, <1>1, <2>1, OtherStep DEF evalVars, weatherVars
<1>2. ASSUME NEW w \in Workers, LoadAlerts(w) PROVE EvalInv'
    BY <1>2, LoadAlertsStep
<1>3. ASSUME NEW w \in Workers, LoadForecasts(w) PROVE EvalInv'
    BY <1>3, LoadForecastsStep
<1>4. ASSUME NEW w \in Workers, CommitCycle(w) PROVE EvalInv'
    BY <1>4, CommitCycleStep
<1>5. ASSUME NEW w \in Workers, CycleFails(w) PROVE EvalInv'
    BY <1>5, CycleFailsStep
<1>6. ASSUME UNCHANGED apiVars PROVE ApiInv' /\ AlertIds \subseteq AlertIds'
    BY <1>6, ApiStep DEF EvalInv, apiVars, AlertIds
<1>7. ASSUME NEW f \in Forecasts, Ingest(f) PROVE EvalInv'
    BY <1>0, <1>6, <1>7, OtherStep DEF Ingest
<1>8. CASE Midnight
    <2>1. today' \in 0..MaxDay /\ today <= today'
        BY <1>0, <1>8, EvaluationAssumption DEF Midnight
    <2> QED
        BY <1>6, <1>8, <2>1, OtherStep DEF Midnight
<1>9. CASE UNCHANGED vars
    BY <1>0, <1>6, <1>9, OtherStep DEF vars, evalVars, weatherVars
<1> QED
    BY <1>1, <1>2, <1>3, <1>4, <1>5, <1>7, <1>8, <1>9 DEF Next

\* The inductive invariant holds throughout, with any number of workers.
THEOREM EvaluationInvariant == Spec => []EvalInv
<1>1. Init => EvalInv
    BY EvalInitInv
<1>2. EvalInv /\ [Next]_vars => EvalInv'
    BY EvalStep
<1> QED
    BY <1>1, <1>2, PTL DEF Spec

-----------------------------------------------------------------------------
(* Theorems of the evaluation.                                             *)

\* A cycle holds alerts from its first statement on, and they exist.
THEOREM EvaluationTyped == Spec => []EvaluationTypeOK
<1>1. EvalInv => EvaluationTypeOK
    BY DEF EvalInv
<1> QED
    BY <1>1, EvaluationInvariant, PTL

\* An alert triggers at most once per forecast, however many workers evaluate.
THEOREM NoTriggerTwice == Spec => []OneTriggerPerForecast
<1>1. EvalInv => OneTriggerPerForecast
    BY DEF EvalInv
<1> QED
    BY <1>1, EvaluationInvariant, PTL

\* Triggers and deliveries are inserted together.
THEOREM TriggersAreQueued == Spec => []EveryTriggerIsQueued
<1>1. EvalInv => EveryTriggerIsQueued
    BY DEF EvalInv
<1> QED
    BY <1>1, EvaluationInvariant, PTL

\* A trigger's snapshot is true of itself, whatever was edited or ingested
\* while its cycle ran.
THEOREM SnapshotsStayConsistent == Spec => []SnapshotsAreConsistent
<1>1. EvalInv => SnapshotsAreConsistent
    BY DEF EvalInv
<1> QED
    BY <1>1, EvaluationInvariant, PTL

\* Nothing cancels or rewrites a trigger.
THEOREM TriggersStay == Spec => TriggersAreKept
<1>1. [Next]_vars => [triggers \subseteq triggers']_vars
    BY DEF Next, evalVars, LoadAlerts, LoadForecasts, CommitCycle, Stored, CycleFails, Ingest,
           Midnight
<1> QED
    BY <1>1, PTL DEF Spec, TriggersAreKept

\* The commit of a cycle keeps every column but the stamp as it finds it.
LEMMA KeptEdits ==
    ASSUME EvalInv, [Next]_vars, NEW w \in Workers, phase[w] = "insert", phase'[w] = "asleep"
    PROVE  \A a \in AlertIds : \A c \in DOMAIN alerts[a] \ {"last_evaluated_at"} :
               alerts'[a][c] = alerts[a][c]
<1>1. \A a \in AlertIds : DOMAIN alerts[a] = Columns
    BY Ids, RowColumns DEF EvalInv, ApiInv
<1>2. ASSUME NEW v \in Workers, CommitCycle(v)
      PROVE  \A a \in AlertIds : \A c \in DOMAIN alerts[a] \ {"last_evaluated_at"} :
                 alerts'[a][c] = alerts[a][c]
    BY <1>1, <1>2, StampedTable DEF EvalInv, CommitCycle
<1>3. ASSUME NEW v \in Workers, LoadAlerts(v) \/ LoadForecasts(v) \/ CycleFails(v)
      PROVE  alerts' = alerts
    BY <1>3 DEF LoadAlerts, LoadForecasts, CycleFails, apiVars
<1>4. CASE ApiNext /\ UNCHANGED evalVars
    BY <1>4 DEF evalVars, workerVars
<1>5. ASSUME NEW f \in Forecasts, Ingest(f) PROVE alerts' = alerts
    BY <1>5 DEF Ingest, apiVars
<1>6. CASE Midnight
    BY <1>6 DEF Midnight, apiVars
<1>7. CASE UNCHANGED vars
    BY <1>7 DEF vars, apiVars
<1> QED
    BY <1>2, <1>3, <1>4, <1>5, <1>6, <1>7 DEF Next

\* A cycle's commit takes back no edit and no delete.
THEOREM EditsAreKept == Spec => CycleKeepsEdits
<1>1. EvalInv /\ [Next]_vars =>
          [\A w \in Workers : phase[w] = "insert" /\ phase'[w] = "asleep" =>
               \A a \in AlertIds : \A c \in DOMAIN alerts[a] \ {"last_evaluated_at"} :
                   alerts'[a][c] = alerts[a][c]]_vars
    BY KeptEdits
<1> QED
    BY <1>1, EvaluationInvariant, PTL DEF Spec, CycleKeepsEdits

\* A step of the whole is one of the API or keeps deleted_at and is_active.
LEMMA DeletedBesideWorkers ==
    ASSUME EvalInv, [Next]_vars, NEW a \in AlertIds, alerts[a].deleted_at # NULL
    PROVE  alerts'[a].deleted_at # NULL /\ ~alerts'[a].is_active
<1>1. CASE [ApiNext]_apiVars
    BY <1>1, DeletedStep DEF EvalInv
<1>2. ASSUME NEW w \in Workers, CommitCycle(w)
      PROVE  alerts'[a].deleted_at # NULL /\ ~alerts'[a].is_active
    <2>1. alerts'[a].deleted_at = alerts[a].deleted_at /\ alerts'[a].is_active = alerts[a].is_active
        BY <1>2, StampedTable DEF EvalInv, CommitCycle, Columns
    <2>2. alerts[a].is_active = FALSE
        BY DEF EvalInv, ApiInv, StoredChecked, AlertChecks
    <2> QED
        BY <2>1, <2>2
<1>3. [ApiNext]_apiVars \/ \E w \in Workers : CommitCycle(w)
    BY DEF Next, LoadAlerts, LoadForecasts, CycleFails, Ingest, Midnight, vars
<1> QED
    BY <1>1, <1>2, <1>3

\* What the API promises by itself it promises beside the workers, whose stamps
\* write the same rows between a request's load and its commit.
THEOREM ApiBesideWorkers ==
    Spec => /\ [](LiveRulesDiffer /\ RefusedForAReason /\ DeleteOfActiveSucceeds)
            /\ DeletedIsFinal
<1>1. EvalInv => LiveRulesDiffer /\ RefusedForAReason /\ DeleteOfActiveSucceeds
    BY UndisturbedPatch, ActiveDelete DEF EvalInv, ApiInv
<1>2. EvalInv /\ [Next]_vars =>
          [\A a \in AlertIds : alerts[a].deleted_at # NULL =>
               alerts'[a].deleted_at # NULL /\ ~alerts'[a].is_active]_apiVars
    BY DeletedBesideWorkers
<1> QED
    BY <1>1, <1>2, EvaluationInvariant, PTL DEF Spec, DeletedIsFinal

=============================================================================
