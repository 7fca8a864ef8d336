-------------------------- MODULE SeedResetProofs --------------------------
(***************************************************************************)
(* Theorems about SeedReset.tla, for any number of seed commands, workers  *)
(* and requests, and seed arguments of any size: the values of the demo    *)
(* data, the locks, the rows read and written, and the outcomes recorded.  *)
(***************************************************************************)
EXTENDS SeedReset, SequenceTheorems, FiniteSetTheorems, TLAPS

-----------------------------------------------------------------------------
(* The demo data is storable at every size: whatever the number of fields  *)
(* and of forecast days, the values that app/cli.py makes up from          *)
(* remainders and sums pass the CHECKs of the tables, and the three alerts *)
(* of a field have three rules.                                            *)

\* A remainder is below its divisor.
LEMMA Remainders == \A n \in Int, m \in Nat \ {0} : n % m \in 0..m - 1
OBVIOUS

\* Every forecast passes its CHECKs.
LEMMA ForecastsAreStorable ==
    ASSUME NEW i \in Nat \ {0}, NEW o \in Nat
    PROVE  ForecastChecks(ForecastValues(i, o))
<1> DEFINE row == ForecastValues(i, o)
<1>1. i + o \in Nat /\ i * 2 + o \in Nat /\ i * 11 + o * 7 \in Nat
    OBVIOUS
<1>2. row.temp_min_c \in Int /\ row.temp_min_c <= row.temp_max_c
    <2>1. TempMin(i, o) \in Int
        BY DEF TempMin
    <2>2. (i + o) % 6 \in 0..5
        BY <1>1, Remainders
    <2> QED
        BY <2>1, <2>2 DEF ForecastValues
<1>3. row.rain_mm >= 0
    <2>1. i % 8 \in 0..7 /\ o % 5 \in 0..4
        BY Remainders
    <2> QED
        BY <2>1 DEF ForecastValues
<1>4. row.rain_probability_pct # NULL => row.rain_probability_pct \in 0..100
    <2>1. (i * 11 + o * 7) % 70 \in 0..69
        BY <1>1, Remainders
    <2> QED
        BY <2>1 DEF ForecastValues
<1>5. row.snow_mm >= 0
    <2>1. (i + o) % 4 \in 0..3
        BY <1>1, Remainders
    <2> QED
        BY <2>1 DEF ForecastValues
<1>6. row.snow_probability_pct # NULL => row.snow_probability_pct \in 0..100
    <2>1. (i + o) % 30 \in 0..29 /\ (i + o) % 20 \in 0..19
        BY <1>1, Remainders
    <2> QED
        BY <2>1 DEF ForecastValues, SnowProbability
<1>7. row.wind_speed_mps >= 0 /\ row.wind_gust_mps >= 0
    <2>1. (i * 2 + o) % 11 \in 0..10 /\ i % 7 \in 0..6
        BY <1>1, Remainders
    <2> QED
        BY <2>1 DEF ForecastValues, WindSpeed
<1> HIDE DEF row
<1>8. \A m \in ProbabilityMetrics : row[m] # NULL => row[m] \in 0..100
    BY <1>4, <1>6 DEF ProbabilityMetrics
<1>9. \A m \in NonNegativeMetrics \ ProbabilityMetrics : row[m] # NULL => row[m] >= 0
    BY <1>3, <1>5, <1>7 DEF NonNegativeMetrics, ProbabilityMetrics
<1> QED
    BY <1>2, <1>8, <1>9 DEF ForecastChecks, row

\* The template of an alert is one of the eight, by a remainder.
LEMMA TemplateIndex ==
    ASSUME NEW i \in Nat \ {0}, NEW o \in 0..2
    PROVE  1 + ((i + o - 1) % 8) \in 1..8
BY Remainders

\* A template is a rule that the table takes, with room for the adjustment.
LEMMA TemplatesFit ==
    \A n \in 1..8 :
        /\ AlertTemplates[n].metric \in Metrics
        /\ AlertTemplates[n].operator \in Operators
        /\ AlertTemplates[n].threshold_value \in 0..100
        /\ AlertTemplates[n].lookahead_days \in 4..7
<1>1. \A n \in 1..8 : n \in {1, 2, 3, 4, 5, 6, 7, 8}
    OBVIOUS
<1> QED
    BY <1>1 DEF AlertTemplates, Template, Metrics, NonNegativeMetrics, ProbabilityMetrics, Operators

\* Different templates are for different metrics.
LEMMA TemplatesDiffer ==
    \A m, n \in 1..8 : AlertTemplates[m].metric = AlertTemplates[n].metric => m = n
<1>1. \A n \in 1..8 : n \in {1, 2, 3, 4, 5, 6, 7, 8}
    OBVIOUS
<1> QED
    BY <1>1 DEF AlertTemplates, Template

\* Every alert passes its CHECKs.
LEMMA AlertsAreStorable ==
    ASSUME NEW i \in Nat \ {0}, NEW o \in 0..2
    PROVE  AlertChecks(SeededAlert(i, o))
<1> DEFINE alert == SeededAlert(i, o)
           template == TemplateFor(i, o)
           threshold == ThresholdFor(template, i, o)
<1>1. /\ template.metric \in Metrics
      /\ template.operator \in Operators
      /\ template.threshold_value \in 0..100
      /\ template.lookahead_days \in 4..7
    BY TemplateIndex, TemplatesFit DEF TemplateFor
<1>2. Adjustment(i, o) \in 0..2
    BY Remainders DEF Adjustment
<1> HIDE DEF template
<1>3. /\ threshold \in Int
      /\ template.metric \in ProbabilityMetrics => threshold \in 0..100
      /\ template.metric \in NonNegativeMetrics => threshold >= 0
    <2> DEFINE value == template.threshold_value
               adjustment == Adjustment(i, o)
    <2>1. CASE template.metric \in ProbabilityMetrics
        <3>1. threshold = SmallerOf(value + adjustment * 5, 100)
            BY <2>1 DEF ThresholdFor
        <3>2. threshold \in 0..100
            BY <1>1, <1>2, <3>1 DEF SmallerOf
        <3> QED
            BY <2>1, <3>2
    <2>2. CASE template.metric = "temp_min_c"
        <3>1. template.metric \notin NonNegativeMetrics /\ template.metric \notin ProbabilityMetrics
            BY <2>2 DEF NonNegativeMetrics, ProbabilityMetrics
        <3>2. threshold = value - adjustment
            BY <2>2, <3>1 DEF ThresholdFor
        <3> QED
            BY <1>1, <1>2, <3>1, <3>2
    <2>3. CASE template.metric \notin ProbabilityMetrics /\ template.metric # "temp_min_c"
        <3>1. threshold = value + adjustment
            BY <2>3 DEF ThresholdFor
        <3> QED
            BY <1>1, <1>2, <2>3, <3>1
    <2> QED
        BY <2>1, <2>2, <2>3
<1> HIDE DEF threshold
<1>4. alert = [ field_id |-> i, metric |-> template.metric, operator |-> template.operator,
                threshold_value |-> threshold,
                lookahead_days |-> SmallerOf(template.lookahead_days + Adjustment(i, o), 30),
                is_active |-> TRUE, deleted_at |-> NULL, last_evaluated_at |-> NULL ]
    BY DEF SeededAlert, template, threshold
<1>5. SmallerOf(template.lookahead_days + Adjustment(i, o), 30) \in 1..30
    BY <1>1, <1>2 DEF SmallerOf
<1> HIDE DEF alert
<1>6. \A c \in DOMAIN alert \ {"deleted_at", "last_evaluated_at"} : alert[c] # NULL
    <2>1. DOMAIN alert \ {"deleted_at", "last_evaluated_at"} =
              {"field_id", "metric", "operator", "threshold_value", "lookahead_days", "is_active"}
        BY <1>4
    <2>2. NULL \notin Int /\ NULL \notin Metrics \cup Operators /\ NULL # TRUE
        BY NullAssumption
    <2>3. alert.field_id # NULL /\ alert.threshold_value # NULL /\ alert.lookahead_days # NULL
        BY <1>3, <1>4, <1>5, <2>2
    <2>4. alert.metric # NULL /\ alert.operator # NULL
        BY <1>1, <1>4, <2>2
    <2>5. alert.is_active # NULL
        BY <1>4, <2>2
    <2> QED
        BY <2>1, <2>3, <2>4, <2>5
<1>7. LookaheadIsValid(alert.lookahead_days)
    BY <1>4, <1>5 DEF LookaheadIsValid
<1>8. ThresholdChecks(alert.metric, alert.threshold_value)
    BY <1>3, <1>4 DEF ThresholdChecks, NonNegativeMetrics, ProbabilityMetrics
<1>9. alert.deleted_at = NULL
    BY <1>4
<1> QED
    BY <1>6, <1>7, <1>8, <1>9 DEF AlertChecks, alert

\* The alerts of a field have different rules, because they have different
\* metrics.
LEMMA SeededRulesDiffer ==
    ASSUME NEW i \in Nat \ {0}, NEW o \in 0..2, NEW p \in 0..2,
           Rule(SeededAlert(i, o)) = Rule(SeededAlert(i, p))
    PROVE  o = p
<1>1. TemplateFor(i, o).metric = TemplateFor(i, p).metric
    BY DEF Rule, SeededAlert
<1> DEFINE m == (i + o - 1) % 8
           n == (i + p - 1) % 8
<1>2. m \in 0..7 /\ n \in 0..7
    <2>1. i + o - 1 \in Int /\ i + p - 1 \in Int
        OBVIOUS
    <2>2. \A k \in Int : k % 8 \in 0..7
        BY Remainders
    <2> QED
        BY <2>1, <2>2
<1>3. AlertTemplates[1 + m].metric = AlertTemplates[1 + n].metric
    BY <1>1 DEF TemplateFor
<1> HIDE DEF m, n
<1>4. m = n
    <2>1. 1 + m \in 1..8 /\ 1 + n \in 1..8
        BY <1>2
    <2>2. 1 + m = 1 + n
        BY <1>3, <2>1, TemplatesDiffer
    <2> QED
        BY <1>2, <2>2
<1> QED
    BY <1>4 DEF m, n

\* The database takes the demo data of every size (cli.py:131-173 against
\* weather/models.py:14-29 and alerts/models.py:36-61).
THEOREM DemoDataIsStorable == \A fields, days \in Nat : SeedIsStorable(fields, days)
<1> SUFFICES ASSUME NEW fields \in Nat, NEW days \in Nat PROVE SeedIsStorable(fields, days)
    OBVIOUS
<1>1. \A row \in SeededForecasts(fields, days) : ForecastChecks(row)
    BY ForecastsAreStorable DEF SeededForecasts
<1>2. \A alert \in SeededAlerts(fields) : AlertChecks(alert)
    BY AlertsAreStorable DEF SeededAlerts
<1>3. \A i \in 1..fields : \A o, p \in 0..2 :
          Rule(SeededAlert(i, o)) = Rule(SeededAlert(i, p)) => o = p
    BY SeededRulesDiffer
<1> QED
    BY <1>1, <1>2, <1>3 DEF SeedIsStorable

-----------------------------------------------------------------------------
(* The locks.  The inductive invariant says what each process has locked,  *)
(* or is about to, by where it is in its transaction.  What follows from   *)
(* it is that a TRUNCATE runs only while no cycle is between its query for *)
(* alerts and its commit, and no request between its query for the field   *)
(* and its own: what they read stays in the table until they are done.     *)

SeedStages == {"ready", "truncate", "check", "insert", "done", "failed"}

WorkerStages ==
    {"asleep", "alerts", "forecasts", "triggers", "deliveries", "load", "post"}

RequestStages == {"ready", "field", "create", "done", "failed"}

\* Process p may be at stage s.
MayBeAt(p, s) ==
    /\ p \in Seeds => s \in SeedStages
    /\ p \in Workers => s \in WorkerStages
    /\ p \in Requests => s \in RequestStages

\* A cycle that has read alerts, and holds on to them.
InCycle == {"forecasts", "triggers", "deliveries"}

Unlocked == Resting \cup {"load", "post"}

Planned(p) == {plan[p][i] : i \in 1..Len(plan[p])}

\* What p has locked, or will have locked when its statement runs.
LocksOf(p) ==
    /\ MayBeAt(p, stage[p])
    /\ held[p] \subseteq Tables
    /\ plan[p] \in Seq(Tables)
    /\ stage[p] \in Unlocked => held[p] = {} /\ plan[p] = << >>
    /\ stage[p] = "truncate" => Tables \subseteq held[p] \cup Planned(p)
    /\ stage[p] = "alerts" => "alerts" \in held[p] \cup Planned(p)
    /\ stage[p] \in InCycle => "alerts" \in held[p]
    /\ stage[p] = "field" => "fields" \in held[p] \cup Planned(p)
    /\ stage[p] = "create" => "fields" \in held[p]

\* A TRUNCATE shares no table.
Exclusion ==
    \A p, q \in Processes : Exclusive(p) /\ p # q => held[p] \cap held[q] = {}

LockInv ==
    /\ stage = [p \in Processes |-> stage[p]]
    /\ plan = [p \in Processes |-> plan[p]]
    /\ held = [p \in Processes |-> held[p]]
    /\ \A p \in Processes : LocksOf(p)
    /\ Exclusion

\* At first nothing is locked.
LEMMA LockInit == Init => LockInv
<1> SUFFICES ASSUME Init PROVE LockInv
    OBVIOUS
<1>1. /\ stage = [p \in Processes |-> IF p \in Workers THEN "asleep" ELSE "ready"]
      /\ plan = [p \in Processes |-> << >>]
      /\ held = [p \in Processes |-> {}]
    BY DEF Init
<1>2. ASSUME NEW p \in Processes PROVE LocksOf(p)
    <2>1. MayBeAt(p, stage[p])
        BY <1>1, SeedAssumption DEF MayBeAt, SeedStages, WorkerStages, RequestStages
    <2>2. /\ stage[p] \in {"asleep", "ready"}
          /\ held[p] = {} /\ plan[p] = << >> /\ plan[p] \in Seq(Tables)
        BY <1>1, EmptySeq
    <2> QED
        BY <2>1, <2>2 DEF LocksOf, InCycle
<1>3. Exclusion
    BY <1>1 DEF Exclusion
<1> QED
    BY <1>1, <1>2, <1>3 DEF LockInv

\* A process that does not move keeps its locks.
LEMMA SameLocks ==
    ASSUME NEW p \in Processes, LocksOf(p),
           stage'[p] = stage[p], plan'[p] = plan[p], held'[p] = held[p]
    PROVE  LocksOf(p)'
<1>1. Planned(p)' = Planned(p)
    BY DEF Planned
<1>2. MayBeAt(p, stage[p])'
    BY DEF LocksOf, MayBeAt
<1> QED
    BY <1>1, <1>2 DEF LocksOf

\* One process goes to another stage and locks nothing by that.
LEMMA MovedLocks ==
    ASSUME LockInv, NEW p \in Processes, NEW s, NEW ts,
           stage' = [stage EXCEPT ![p] = s],
           plan' = [plan EXCEPT ![p] = ts],
           held' = held \/ held' = [held EXCEPT ![p] = {}],
           LocksOf(p)',
           s = "truncate" => held'[p] = {}
    PROVE  LockInv'
<1>1. stage' = [q \in Processes |-> IF q = p THEN s ELSE stage[q]]
    BY DEF LockInv
<1>2. plan' = [q \in Processes |-> IF q = p THEN ts ELSE plan[q]]
    BY DEF LockInv
<1>3. /\ held' = [q \in Processes |-> held'[q]]
      /\ \A q \in Processes : held'[q] \subseteq held[q] /\ (q # p => held'[q] = held[q])
    BY DEF LockInv
<1>4. ASSUME NEW q \in Processes, q # p PROVE LocksOf(q)'
    <2>1. stage'[q] = stage[q] /\ plan'[q] = plan[q] /\ held'[q] = held[q]
        BY <1>1, <1>2, <1>3, <1>4
    <2> QED
        BY <2>1, SameLocks DEF LockInv
<1>5. Exclusion'
    <2> SUFFICES ASSUME NEW q \in Processes, NEW o \in Processes, Exclusive(q)', q # o
                 PROVE  held'[q] \cap held'[o] = {}
        BY DEF Exclusion
    <2>1. CASE q = p
        BY <1>1, <2>1 DEF Exclusive
    <2>2. CASE q # p
        BY <1>1, <1>3, <2>2 DEF Exclusive, LockInv, Exclusion
    <2> QED
        BY <2>1, <2>2
<1> QED
    BY <1>1, <1>2, <1>3, <1>4, <1>5 DEF LockInv

\* A transaction ends, and with it its locks.
LEMMA EndLocks ==
    ASSUME LockInv, NEW p \in Processes, NEW s, NEW ts \in Seq(Tables),
           EndTransaction(p, s, ts),
           MayBeAt(p, s),
           s \in Unlocked => ts = << >>,
           s \notin InCycle \cup {"truncate", "alerts", "field", "create"}
    PROVE  LockInv'
<1>1. /\ stage' = [stage EXCEPT ![p] = s] /\ plan' = [plan EXCEPT ![p] = ts]
      /\ held' = [held EXCEPT ![p] = {}]
    BY DEF EndTransaction
<1>2. stage'[p] = s
    BY <1>1 DEF LockInv
<1>3. plan'[p] = ts
    BY <1>1 DEF LockInv
<1>4. held'[p] = {}
    BY <1>1 DEF LockInv
<1>5. LocksOf(p)'
    BY <1>2, <1>3, <1>4 DEF LocksOf
<1> QED
    BY <1>1, <1>5, MovedLocks

\* The next statement of a transaction locks what its stage needs, unless that
\* is locked.
LEMMA ContinueLocks ==
    ASSUME LockInv, NEW p \in Processes, NEW s, NEW ts \in Seq(Tables),
           Continue(p, s, ts),
           MayBeAt(p, s),
           s \notin Unlocked,
           s = "truncate" => held[p] = {} /\ Tables \subseteq {ts[i] : i \in 1..Len(ts)},
           s = "alerts" => "alerts" \in {ts[i] : i \in 1..Len(ts)},
           s = "field" => "fields" \in {ts[i] : i \in 1..Len(ts)},
           s \in InCycle => "alerts" \in held[p],
           s = "create" => "fields" \in held[p]
    PROVE  LockInv'
<1>1. /\ stage' = [stage EXCEPT ![p] = s] /\ plan' = [plan EXCEPT ![p] = ts]
      /\ held' = held
    BY DEF Continue
<1>2. stage'[p] = s
    BY <1>1 DEF LockInv
<1>3. plan'[p] = ts
    BY <1>1 DEF LockInv
<1>4. Planned(p)' = {ts[i] : i \in 1..Len(ts)}
    BY <1>3 DEF Planned
<1>5. held[p] \subseteq Tables
    BY DEF LockInv, LocksOf
<1>6. LocksOf(p)'
    BY <1>1, <1>2, <1>3, <1>4, <1>5 DEF LocksOf
<1> QED
    BY <1>1, <1>6, MovedLocks

\* A lock is taken only when nobody who excludes the taker holds it.
LEMMA LockLocks ==
    ASSUME LockInv, NEW p \in Processes, Lock(p)
    PROVE  LockInv'
<1>1. /\ plan[p] \in Seq(Tables) /\ plan[p] # << >>
      /\ \A q \in Processes : ~WaitsFor(p, q)
      /\ held' = [held EXCEPT ![p] = @ \cup {Head(plan[p])}]
      /\ plan' = [plan EXCEPT ![p] = Tail(@)]
      /\ stage' = stage
    BY DEF Lock, LockInv, LocksOf
<1> DEFINE t == Head(plan[p])
<1>2. t \in Tables /\ Tail(plan[p]) \in Seq(Tables)
    BY <1>1, HeadTailProperties
<1>3. held' = [q \in Processes |-> IF q = p THEN held[p] \cup {t} ELSE held[q]]
    BY <1>1 DEF LockInv
<1>4. plan' = [q \in Processes |-> IF q = p THEN Tail(plan[p]) ELSE plan[q]]
    BY <1>1 DEF LockInv
<1>5. Planned(p) \subseteq {t} \cup Planned(p)'
    <2>0. t = plan[p][1]
        BY <1>1
    <2> SUFFICES ASSUME NEW i \in 1..Len(plan[p]), i # 1
                 PROVE  plan[p][i] \in Planned(p)'
        BY <2>0 DEF Planned
    <2>1. Len(plan[p]) \in Nat
        BY <1>1, LenProperties
    <2>2. i - 1 \in 1..Len(Tail(plan[p])) /\ plan[p][i] = Tail(plan[p])[i - 1]
        BY <1>1, <2>1, HeadTailProperties
    <2> QED
        BY <1>4, <2>2 DEF Planned
<1> HIDE DEF t
<1>6. ASSUME NEW q \in Processes PROVE LocksOf(q)'
    <2>1. CASE q # p
        <3>1. held'[q] = held[q] /\ plan'[q] = plan[q]
            BY <1>3, <1>4, <2>1
        <3> QED
            BY <1>1, <3>1, SameLocks DEF LockInv
    <2>2. CASE q = p
        <3>1. stage'[p] = stage[p] /\ stage[p] \notin Unlocked
            BY <1>1 DEF LockInv, LocksOf
        <3>2. held'[p] = held[p] \cup {t} /\ plan'[p] = Tail(plan[p])
            BY <1>3, <1>4
        <3>3. held[p] \cup Planned(p) \subseteq held'[p] \cup Planned(p)'
            BY <1>5, <3>2
        <3> QED
            BY <1>2, <2>2, <3>1, <3>2, <3>3 DEF LockInv, LocksOf
    <2> QED
        BY <2>1, <2>2
<1>7. Exclusion'
    <2> SUFFICES ASSUME NEW q \in Processes, NEW o \in Processes, Exclusive(q)', q # o
                 PROVE  held'[q] \cap held'[o] = {}
        BY DEF Exclusion
    <2>1. Exclusive(q) /\ held[q] \cap held[o] = {}
        BY <1>1 DEF Exclusive, LockInv, Exclusion
    <2>2. q = p => t \notin held[o]
        BY <1>1, <2>1 DEF WaitsFor, t
    <2>3. o = p => t \notin held[q]
        BY <1>1, <2>1 DEF WaitsFor, t
    <2> QED
        BY <1>3, <2>1, <2>2, <2>3
<1>8. held' = [q \in Processes |-> held'[q]] /\ plan' = [q \in Processes |-> plan'[q]]
    BY <1>3, <1>4
<1> QED
    BY <1>1, <1>6, <1>7, <1>8 DEF LockInv

\* A worker between two transactions moves on.
LEMMA IdleLocks ==
    ASSUME LockInv, NEW w \in Workers, NEW s \in {"asleep", "load", "post"},
           stage[w] \in Unlocked, stage' = [stage EXCEPT ![w] = s],
           plan' = plan, held' = held
    PROVE  LockInv'
<1>1. w \in Processes /\ plan' = [plan EXCEPT ![w] = << >>]
    BY DEF LockInv, LocksOf, Processes
<1>2. stage'[w] = s
    BY <1>1 DEF LockInv
<1>3. held'[w] = {} /\ plan'[w] = << >> /\ plan'[w] \in Seq(Tables)
    BY <1>1, EmptySeq DEF LockInv, LocksOf
<1>4. MayBeAt(w, s)
    BY SeedAssumption DEF MayBeAt, WorkerStages
<1>5. LocksOf(w)'
    BY <1>2, <1>3, <1>4 DEF LocksOf, InCycle
<1> QED
    BY <1>1, <1>2, <1>5, MovedLocks

-----------------------------------------------------------------------------
(* The steps of each process.                                              *)

\* What is known of a stage that has all its locks.
LEMMA ReachedLocks ==
    ASSUME LockInv, NEW p \in Processes, NEW s, Reached(p, s)
    PROVE  /\ Planned(p) = {}
           /\ s = "truncate" => held[p] = Tables
           /\ s = "alerts" => "alerts" \in held[p]
           /\ s \in InCycle => "alerts" \in held[p]
           /\ s = "field" => "fields" \in held[p]
           /\ s = "create" => "fields" \in held[p]
<1>1. plan[p] = << >> /\ stage[p] = s /\ LocksOf(p)
    BY DEF Reached, LockInv
<1>2. Planned(p) = {}
    BY <1>1, EmptySeq DEF Planned
<1> QED
    BY <1>1, <1>2 DEF LocksOf

\* What each statement of SeedReset.tla locks is a sequence of tables.
LEMMA Statements ==
    /\ << >> \in Seq(Tables)
    /\ Truncated \in Seq(Tables) /\ Tables \subseteq {Truncated[i] : i \in 1..Len(Truncated)}
    /\ Inserted \in Seq(Tables)
    /\ << "users" >> \in Seq(Tables)
    /\ LET ts == << "alerts", "fields", "users" >>
       IN  ts \in Seq(Tables) /\ "alerts" \in {ts[i] : i \in 1..Len(ts)}
    /\ LET ts == << "fields" >>
       IN  ts \in Seq(Tables) /\ "fields" \in {ts[i] : i \in 1..Len(ts)}
    /\ << "forecasts" >> \in Seq(Tables)
    /\ << "triggers" >> \in Seq(Tables)
    /\ << "deliveries" >> \in Seq(Tables)
    /\ << "alerts" >> \in Seq(Tables)
<1>1. Truncated \in Seq(Tables) /\ Inserted \in Seq(Tables)
    BY DEF Truncated, Inserted, Tables
<1>2. Tables \subseteq {Truncated[i] : i \in 1..Len(Truncated)}
    <2>1. Len(Truncated) = 6
        BY DEF Truncated
    <2>2. {1, 2, 3, 4, 5, 6} \subseteq 1..Len(Truncated)
        BY <2>1
    <2>3. {Truncated[1], Truncated[2], Truncated[3], Truncated[4], Truncated[5], Truncated[6]}
              \subseteq {Truncated[i] : i \in 1..Len(Truncated)}
        BY <2>2
    <2> QED
        BY <2>3 DEF Truncated, Tables
<1> QED
    BY <1>1, <1>2 DEF Tables

\* The steps of a seed command.
LEMMA SeedLocks ==
    ASSUME LockInv, NEW s \in Seeds, SeedStep(s) \/ Interrupt(s)
    PROVE  LockInv'
<1>0. s \in Processes
    BY DEF Processes
<1>1. \A x \in SeedStages : MayBeAt(s, x)
    BY SeedAssumption DEF MayBeAt
<1>2. CASE StartSeed(s)
    <2>1. stage[s] = "ready" /\ held[s] = {}
        BY <1>0, <1>2 DEF StartSeed, LockInv, LocksOf, Unlocked, Resting
    <2>2. CASE Continue(s, "truncate", Truncated)
        BY <1>0, <1>1, <2>1, <2>2, Statements, ContinueLocks
            DEF SeedStages, Unlocked, Resting, InCycle
    <2>3. CASE Continue(s, "check", << "users" >>)
        BY <1>0, <1>1, <2>3, Statements, ContinueLocks
            DEF SeedStages, Unlocked, Resting, InCycle
    <2> QED
        BY <1>2, <2>2, <2>3 DEF StartSeed
<1>3. CASE Reset(s)
    BY <1>0, <1>1, <1>3, Statements, EndLocks
        DEF Reset, SeedStages, Unlocked, Resting, InCycle
<1>4. CASE SkipSeed(s)
    BY <1>0, <1>1, <1>4, Statements, EndLocks
        DEF SkipSeed, SeedStages, Unlocked, Resting, InCycle
<1>5. CASE FoundEmpty(s)
    BY <1>0, <1>1, <1>5, Statements, ContinueLocks
        DEF FoundEmpty, SeedStages, Unlocked, Resting, InCycle
<1>6. CASE InsertSeed(s)
    BY <1>0, <1>1, <1>6, Statements, EndLocks
        DEF InsertSeed, SeedStages, Unlocked, Resting, InCycle
<1>7. CASE Interrupt(s)
    BY <1>0, <1>1, <1>7, Statements, EndLocks
        DEF Interrupt, SeedStages, Unlocked, Resting, InCycle
<1> QED
    BY <1>2, <1>3, <1>4, <1>5, <1>6, <1>7 DEF SeedStep

\* The steps of a worker.
LEMMA WorkerLocks ==
    ASSUME LockInv, NEW w \in Workers, WorkerStep(w)
    PROVE  LockInv'
<1>0. w \in Processes
    BY DEF Processes
<1>1. \A x \in WorkerStages : MayBeAt(w, x)
    BY SeedAssumption DEF MayBeAt
<1> USE DEF WorkerStages, Unlocked, Resting, InCycle
<1>2. CASE StartCycle(w)
    BY <1>0, <1>1, <1>2, Statements, ContinueLocks DEF StartCycle
<1>3. CASE LoadAlerts(w)
    <2>1. "alerts" \in held[w]
        BY <1>0, <1>3, ReachedLocks DEF LoadAlerts
    <2>2. CASE EndTransaction(w, "load", << >>)
        BY <1>0, <1>1, <2>2, Statements, EndLocks
    <2>3. CASE Continue(w, "forecasts", << "forecasts" >>)
        BY <1>0, <1>1, <2>1, <2>3, Statements, ContinueLocks
    <2> QED
        BY <1>3, <2>2, <2>3 DEF LoadAlerts
<1>4. CASE LoadForecasts(w)
    <2>1. "alerts" \in held[w]
        BY <1>0, <1>4, ReachedLocks DEF LoadForecasts
    <2> QED
        BY <1>0, <1>1, <1>4, <2>1, Statements, ContinueLocks DEF LoadForecasts
<1>5. CASE InsertTriggers(w)
    <2>1. "alerts" \in held[w]
        BY <1>0, <1>5, ReachedLocks DEF InsertTriggers
    <2>2. Continue(w, "deliveries", << >>) \/ Continue(w, "deliveries", << "deliveries" >>)
        BY <1>5 DEF InsertTriggers, Continue
    <2> QED
        BY <1>0, <1>1, <2>1, <2>2, Statements, ContinueLocks
<1>6. CASE CommitCycle(w)
    BY <1>0, <1>1, <1>6, Statements, EndLocks DEF CommitCycle
<1>7. CASE LoadBatch(w)
    <2>1. PICK s \in {"asleep", "post"} : stage' = [stage EXCEPT ![w] = s]
        BY <1>7 DEF LoadBatch
    <2> QED
        BY <1>7, <2>1, IdleLocks DEF LoadBatch
<1>8. CASE \E d \in DOMAIN batch[w] : Post(w, d)
    <2>1. stage' = stage /\ plan' = plan /\ held' = held
        BY <1>8 DEF Post, lockVars
    <2> QED
        BY <2>1, SameLocks DEF LockInv, Exclusion, Exclusive
<1>9. CASE Apply(w)
    BY <1>9, IdleLocks DEF Apply
<1> QED
    BY <1>2, <1>3, <1>4, <1>5, <1>6, <1>7, <1>8, <1>9 DEF WorkerStep

\* The steps of a request.
LEMMA RequestLocks ==
    ASSUME LockInv, NEW r \in Requests, RequestStep(r)
    PROVE  LockInv'
<1>0. r \in Processes
    BY DEF Processes
<1>1. \A x \in RequestStages : MayBeAt(r, x)
    BY SeedAssumption DEF MayBeAt
<1> USE DEF RequestStages, Unlocked, Resting, InCycle
<1>2. CASE StartRequest(r)
    BY <1>0, <1>1, <1>2, Statements, ContinueLocks DEF StartRequest
<1>3. CASE LoadField(r)
    <2>1. "fields" \in held[r]
        BY <1>0, <1>3, ReachedLocks DEF LoadField
    <2>2. CASE EndTransaction(r, "done", << >>)
        BY <1>0, <1>1, <2>2, Statements, EndLocks
    <2>3. CASE Continue(r, "create", << "alerts" >>)
        BY <1>0, <1>1, <2>1, <2>3, Statements, ContinueLocks
    <2> QED
        BY <1>3, <2>2, <2>3 DEF LoadField
<1>4. CASE CreateAlert(r)
    BY <1>0, <1>1, <1>4, Statements, EndLocks DEF CreateAlert
<1> QED
    BY <1>2, <1>3, <1>4 DEF RequestStep

\* PostgreSQL ends a transaction.
LEMMA AbortLocks ==
    ASSUME LockInv, NEW p \in Processes, Abort(p)
    PROVE  LockInv'
<1>1. MayBeAt(p, FailedStage(p))
    BY SeedAssumption
        DEF MayBeAt, FailedStage, Processes, SeedStages, WorkerStages, RequestStages
<1>2. FailedStage(p) \in {"asleep", "failed"}
    BY DEF FailedStage
<1> QED
    BY <1>1, <1>2, Statements, EndLocks DEF Abort, Unlocked, Resting, InCycle

\* Every step keeps the locks as the stages say.
LEMMA LockStep == LockInv /\ [Next]_vars => LockInv'
<1> SUFFICES ASSUME LockInv, [Next]_vars PROVE LockInv'
    OBVIOUS
<1>1. ASSUME UNCHANGED vars PROVE LockInv'
    <2>1. stage' = stage /\ plan' = plan /\ held' = held
        BY <1>1 DEF vars, lockVars
    <2> QED
        BY <2>1, SameLocks DEF LockInv, Exclusion, Exclusive
<1> QED
    BY <1>1, SeedLocks, WorkerLocks, RequestLocks, LockLocks, AbortLocks DEF Next

\* The inductive invariant holds throughout.
THEOREM LockInvariant == Spec => []LockInv
BY LockInit, LockStep, PTL DEF Spec

-----------------------------------------------------------------------------
(* The rows.  A cycle and a request write rows that refer to what they     *)
(* read earlier in their transaction.  The locks say that no TRUNCATE runs *)
(* meanwhile; without one tables only grow, so what was read is still      *)
(* there, under the same id and of the same data set.                      *)

UserRow == [data : Seeds]
ChildRow == [data : Seeds, parent : Nat]
DeliveryRow ==
    [ data : Seeds, parent : Nat,
      status : {"PENDING", "RETRYING", "FAILED", "DELIVERED"}, attempt_count : Nat ]

TablesOK ==
    /\ table = [t \in Tables |-> table[t]]
    /\ table["users"] \in Seq(UserRow)
    /\ table["fields"] \in Seq(ChildRow)
    /\ table["forecasts"] \in Seq(ChildRow)
    /\ table["alerts"] \in Seq(ChildRow)
    /\ table["triggers"] \in Seq(ChildRow)
    /\ table["deliveries"] \in Seq(DeliveryRow)

\* Row id of table t refers to a row of its own data set.
RefersWell(t, id) ==
    /\ table[t][id].parent \in DOMAIN table[Parent[t]]
    /\ table[Parent[t]][table[t][id].parent].data = table[t][id].data

\* What a cycle, or a request, has read is in the table until it commits.
CycleCurrent(w) ==
    stage[w] \in InCycle =>
        \A a \in DOMAIN found[w] :
            /\ a \in DOMAIN table["alerts"]
            /\ found[w][a].data = table["alerts"][a].data

RequestCurrent(r) ==
    stage[r] = "create" =>
        /\ found[r][1] \in DOMAIN table["fields"]
        /\ found[r][2] = table["fields"][found[r][1]].data

FoundIsCurrent ==
    /\ \A w \in Workers : CycleCurrent(w)
    /\ \A r \in Requests : RequestCurrent(r)

RowsReferWell == \A t \in DOMAIN Parent : \A id \in DOMAIN table[t] : RefersWell(t, id)

ReadInv ==
    /\ LockInv
    /\ TablesOK
    /\ found = [p \in Processes |-> found[p]]
    /\ RowsReferWell
    /\ FoundIsCurrent

-----------------------------------------------------------------------------
(* Sequences that grow.                                                    *)

\* The rows of old are in new, under their ids.
Grown(old, new) ==
    /\ DOMAIN old \subseteq DOMAIN new
    /\ \A id \in DOMAIN old : new[id] = old[id]

\* A row is added at the end.
LEMMA GrownByOne ==
    ASSUME NEW S, NEW seq \in Seq(S), NEW row \in S
    PROVE  /\ Append(seq, row) \in Seq(S)
           /\ Grown(seq, Append(seq, row))
           /\ Len(seq) + 1 \in DOMAIN Append(seq, row)
           /\ \A id \in DOMAIN Append(seq, row) \ DOMAIN seq : id = Len(seq) + 1
           /\ Append(seq, row)[Len(seq) + 1] = row
<1>1. Len(seq) \in Nat /\ DOMAIN seq = 1..Len(seq)
    BY LenProperties
<1>2. /\ Append(seq, row) \in Seq(S)
      /\ DOMAIN Append(seq, row) = 1..Len(seq) + 1
      /\ \A i \in 1..Len(seq) : Append(seq, row)[i] = seq[i]
      /\ Append(seq, row)[Len(seq) + 1] = row
    BY AppendProperties, LenProperties
<1> QED
    BY <1>1, <1>2 DEF Grown

\* Rows are added at the end.
LEMMA GrownByMany ==
    ASSUME NEW S, NEW seq \in Seq(S), NEW rows \in Seq(S)
    PROVE  /\ seq \o rows \in Seq(S)
           /\ Grown(seq, seq \o rows)
           /\ DOMAIN (seq \o rows) = 1..Len(seq) + Len(rows)
           /\ \A i \in 1..Len(rows) : (seq \o rows)[Len(seq) + i] = rows[i]
           /\ \A id \in DOMAIN (seq \o rows) \ DOMAIN seq :
                  \E i \in 1..Len(rows) : id = Len(seq) + i
<1>1. Len(seq) \in Nat /\ DOMAIN seq = 1..Len(seq) /\ Len(rows) \in Nat
    BY LenProperties
<1>2. /\ seq \o rows \in Seq(S)
      /\ Len(seq \o rows) = Len(seq) + Len(rows)
      /\ \A i \in 1..Len(seq) + Len(rows) :
             (seq \o rows)[i] = IF i <= Len(seq) THEN seq[i] ELSE rows[i - Len(seq)]
    BY ConcatProperties
<1>3. DOMAIN (seq \o rows) = 1..Len(seq) + Len(rows)
    BY <1>2, LenProperties
<1>4. Grown(seq, seq \o rows)
    BY <1>1, <1>2, <1>3 DEF Grown
<1>5. ASSUME NEW i \in 1..Len(rows) PROVE (seq \o rows)[Len(seq) + i] = rows[i]
    <2>1. /\ Len(seq) + i \in 1..Len(seq) + Len(rows) /\ ~(Len(seq) + i <= Len(seq))
          /\ (Len(seq) + i) - Len(seq) = i
        BY <1>1
    <2> QED
        BY <1>2, <2>1
<1>6. ASSUME NEW id \in DOMAIN (seq \o rows) \ DOMAIN seq
      PROVE  \E i \in 1..Len(rows) : id = Len(seq) + i
    <2>1. id - Len(seq) \in 1..Len(rows) /\ id = Len(seq) + (id - Len(seq))
        BY <1>1, <1>3
    <2> QED
        BY <2>1
<1> QED
    BY <1>2, <1>3, <1>4, <1>5, <1>6

-----------------------------------------------------------------------------
(* Steps that let the tables grow, or leave them alone.                    *)

\* An unchanged table has grown by nothing.
LEMMA SameIsGrown == \A old : Grown(old, old)
BY DEF Grown

\* The tables that rows refer to are tables.
LEMMA ParentTables ==
    /\ DOMAIN Parent = {"fields", "forecasts", "alerts", "triggers", "deliveries"}
    /\ \A t \in DOMAIN Parent : t \in Tables /\ Parent[t] \in Tables
BY DEF Parent, Tables

\* Nothing that was referred to is lost.
LEMMA GrownRefs ==
    ASSUME RowsReferWell,
           \A t \in Tables : Grown(table[t], table'[t]),
           \A t \in DOMAIN Parent : \A id \in DOMAIN table'[t] \ DOMAIN table[t] :
               RefersWell(t, id)'
    PROVE  RowsReferWell'
<1> SUFFICES ASSUME NEW t \in DOMAIN Parent, NEW id \in DOMAIN table[t]
             PROVE  RefersWell(t, id)'
    BY DEF RowsReferWell
<1>1. t \in Tables /\ Parent[t] \in Tables
    BY ParentTables
<1>2. table'[t][id] = table[t][id]
    BY <1>1 DEF Grown
<1> DEFINE up == table[t][id].parent
<1>3. up \in DOMAIN table[Parent[t]] /\ table[Parent[t]][up].data = table[t][id].data
    BY DEF RowsReferWell, RefersWell
<1>4. up \in DOMAIN table'[Parent[t]] /\ table'[Parent[t]][up] = table[Parent[t]][up]
    BY <1>1, <1>3 DEF Grown
<1> QED
    BY <1>2, <1>3, <1>4 DEF RefersWell

\* One process moves; what the others have read is still there.
LEMMA GrownFound ==
    ASSUME LockInv, FoundIsCurrent, NEW p \in Processes, NEW s,
           stage' = [stage EXCEPT ![p] = s],
           \A q \in Processes \ {p} : found'[q] = found[q],
           Grown(table["alerts"], table'["alerts"]),
           Grown(table["fields"], table'["fields"]),
           p \in Workers => CycleCurrent(p)',
           p \in Requests => RequestCurrent(p)'
    PROVE  FoundIsCurrent'
<1>1. \A q \in Processes \ {p} : stage'[q] = stage[q]
    BY DEF LockInv
<1>2. ASSUME NEW w \in Workers, w # p PROVE CycleCurrent(w)'
    <2>1. stage'[w] = stage[w] /\ found'[w] = found[w]
        BY <1>1, <1>2 DEF Processes
    <2> QED
        BY <2>1 DEF FoundIsCurrent, CycleCurrent, Grown
<1>3. ASSUME NEW r \in Requests, r # p PROVE RequestCurrent(r)'
    <2>1. stage'[r] = stage[r] /\ found'[r] = found[r]
        BY <1>1, <1>3 DEF Processes
    <2> QED
        BY <2>1 DEF FoundIsCurrent, RequestCurrent, Grown
<1> QED
    BY <1>2, <1>3 DEF FoundIsCurrent

\* A transaction ends, perhaps with new rows.
LEMMA EndReads ==
    ASSUME ReadInv, LockInv', TablesOK', NEW p \in Processes, NEW s, NEW ts,
           EndTransaction(p, s, ts), s \notin InCycle \cup {"create"},
           \A t \in Tables : Grown(table[t], table'[t]),
           \A t \in DOMAIN Parent : \A id \in DOMAIN table'[t] \ DOMAIN table[t] :
               RefersWell(t, id)'
    PROVE  ReadInv'
<1>1. stage' = [stage EXCEPT ![p] = s] /\ found' = [found EXCEPT ![p] = Nothing]
    BY DEF EndTransaction
<1>2. stage'[p] = s
    BY <1>1 DEF ReadInv, LockInv
<1>3. found' = [q \in Processes |-> IF q = p THEN Nothing ELSE found[q]]
    BY <1>1 DEF ReadInv
<1>4. CycleCurrent(p)' /\ RequestCurrent(p)'
    BY <1>2 DEF CycleCurrent, RequestCurrent
<1>5. \A q \in Processes \ {p} : found'[q] = found[q]
    BY <1>3
<1>6. Grown(table["alerts"], table'["alerts"]) /\ Grown(table["fields"], table'["fields"])
    BY DEF Tables
<1>7. FoundIsCurrent'
    BY <1>1, <1>4, <1>5, <1>6, GrownFound DEF ReadInv
<1>8. RowsReferWell'
    BY GrownRefs DEF ReadInv
<1>9. found' = [q \in Processes |-> found'[q]]
    BY <1>3
<1> QED
    BY <1>7, <1>8, <1>9 DEF ReadInv

\* A process moves on in its transaction.
LEMMA MovedReads ==
    ASSUME ReadInv, LockInv', table' = table, NEW p \in Processes, NEW s,
           stage' = [stage EXCEPT ![p] = s],
           found' = [q \in Processes |-> found'[q]],
           \A q \in Processes \ {p} : found'[q] = found[q],
           p \in Workers => CycleCurrent(p)',
           p \in Requests => RequestCurrent(p)'
    PROVE  ReadInv'
<1>1. FoundIsCurrent'
    BY SameIsGrown, GrownFound DEF ReadInv
<1>2. TablesOK' /\ RowsReferWell'
    BY DEF ReadInv, TablesOK, RowsReferWell, RefersWell
<1> QED
    BY <1>1, <1>2 DEF ReadInv

\* A transaction ends without having changed a table.
LEMMA EndReadsSame ==
    ASSUME ReadInv, LockInv', table' = table, NEW p \in Processes, NEW s, NEW ts,
           EndTransaction(p, s, ts), s \notin InCycle \cup {"create"}
    PROVE  ReadInv'
<1>1. stage' = [stage EXCEPT ![p] = s] /\ found' = [found EXCEPT ![p] = Nothing]
    BY DEF EndTransaction
<1>2. stage'[p] = s
    BY <1>1 DEF ReadInv, LockInv
<1>3. found' = [q \in Processes |-> IF q = p THEN Nothing ELSE found[q]]
    BY <1>1 DEF ReadInv
<1>4. CycleCurrent(p)' /\ RequestCurrent(p)'
    BY <1>2 DEF CycleCurrent, RequestCurrent
<1>5. /\ found' = [q \in Processes |-> found'[q]]
      /\ \A q \in Processes \ {p} : found'[q] = found[q]
    BY <1>3
<1> QED
    BY <1>1, <1>4, <1>5, MovedReads

\* Nobody moves, and the tables and what was read are left alone.
LEMMA SameReads ==
    ASSUME ReadInv, LockInv', UNCHANGED << table, stage, found >>
    PROVE  ReadInv'
<1>1. FoundIsCurrent'
    BY DEF ReadInv, FoundIsCurrent, CycleCurrent, RequestCurrent
<1>2. TablesOK' /\ RowsReferWell'
    BY DEF ReadInv, TablesOK, RowsReferWell, RefersWell
<1> QED
    BY <1>1, <1>2 DEF ReadInv

-----------------------------------------------------------------------------
(* Steps that write.                                                       *)

\* TRUNCATE: no cycle and no request has read anything it would still use.
LEMMA ResetReads ==
    ASSUME ReadInv, LockInv', NEW s \in Seeds, Reset(s)
    PROVE  ReadInv'
<1>1. /\ Reached(s, "truncate") /\ s \in Processes
      /\ table' = [t \in Tables |-> << >>]
      /\ EndTransaction(s, "insert", Inserted)
    BY DEF Reset, Processes
<1>2. Exclusive(s) /\ held[s] = Tables
    BY <1>1, ReachedLocks DEF ReadInv, Reached, Exclusive
<1>3. \A q \in Processes \ {s} : "alerts" \notin held[q] /\ "fields" \notin held[q]
    BY <1>1, <1>2 DEF ReadInv, LockInv, Exclusion, Tables
<1>4. stage' = [q \in Processes |-> IF q = s THEN "insert" ELSE stage[q]]
    BY <1>1 DEF EndTransaction, ReadInv, LockInv
<1>5. ASSUME NEW w \in Workers PROVE CycleCurrent(w)'
    <2>1. w \in Processes \ {s}
        BY SeedAssumption DEF Processes
    <2>2. stage[w] \notin InCycle
        BY <1>3, <2>1 DEF ReadInv, LockInv, LocksOf
    <2> QED
        BY <1>4, <2>1, <2>2 DEF CycleCurrent
<1>6. ASSUME NEW r \in Requests PROVE RequestCurrent(r)'
    <2>1. r \in Processes \ {s}
        BY SeedAssumption DEF Processes
    <2>2. stage[r] # "create"
        BY <1>3, <2>1 DEF ReadInv, LockInv, LocksOf
    <2> QED
        BY <1>4, <2>1, <2>2 DEF RequestCurrent
<1>7. \A t \in Tables : table'[t] = << >>
    BY <1>1
<1>8. TablesOK'
    <2>1. table' = [t \in Tables |-> table'[t]]
        BY <1>1
    <2> QED
        BY <1>7, <2>1, EmptySeq DEF TablesOK, Tables
<1>9. RowsReferWell'
    <2>1. \A t \in Tables : DOMAIN table'[t] = {}
        BY <1>7
    <2> QED
        BY <2>1, ParentTables DEF RowsReferWell
<1>10. found' = [q \in Processes |-> found'[q]]
    BY <1>1 DEF EndTransaction, ReadInv
<1> QED
    BY <1>5, <1>6, <1>8, <1>9, <1>10 DEF ReadInv, FoundIsCurrent

\* A data set is inserted whole.
LEMMA InsertReads ==
    ASSUME ReadInv, LockInv', NEW s \in Seeds, InsertSeed(s)
    PROVE  ReadInv'
<1> DEFINE user == Len(table["users"]) + 1
           field == Len(table["fields"]) + 1
<1>1. /\ table' = [table EXCEPT
             !["users"] = Append(@, [data |-> s]),
             !["fields"] = Append(@, [data |-> s, parent |-> user]),
             !["forecasts"] = Append(@, [data |-> s, parent |-> field]),
             !["alerts"] = Append(@, [data |-> s, parent |-> field])]
      /\ EndTransaction(s, "done", << >>) /\ s \in Processes
    BY DEF InsertSeed, Processes
<1>2. user \in Nat /\ field \in Nat
    BY LenProperties DEF ReadInv, TablesOK
<1> HIDE DEF user, field
<1>3. /\ [data |-> s] \in UserRow
      /\ [data |-> s, parent |-> user] \in ChildRow
      /\ [data |-> s, parent |-> field] \in ChildRow
    BY <1>2 DEF UserRow, ChildRow
<1>4. table' = [t \in Tables |-> table'[t]]
    BY <1>1 DEF ReadInv, TablesOK
<1>5. /\ table'["users"] = Append(table["users"], [data |-> s])
      /\ table'["fields"] = Append(table["fields"], [data |-> s, parent |-> user])
      /\ table'["forecasts"] = Append(table["forecasts"], [data |-> s, parent |-> field])
      /\ table'["alerts"] = Append(table["alerts"], [data |-> s, parent |-> field])
      /\ table'["triggers"] = table["triggers"]
      /\ table'["deliveries"] = table["deliveries"]
    BY <1>1 DEF ReadInv, TablesOK, Tables
<1>6. /\ table["users"] \in Seq(UserRow) /\ table["fields"] \in Seq(ChildRow)
      /\ table["forecasts"] \in Seq(ChildRow) /\ table["alerts"] \in Seq(ChildRow)
    BY DEF ReadInv, TablesOK
<1>7. /\ table'["users"] \in Seq(UserRow)
      /\ Grown(table["users"], table'["users"])
      /\ user \in DOMAIN table'["users"]
      /\ table'["users"][user] = [data |-> s]
    BY <1>3, <1>5, <1>6, GrownByOne DEF user
<1>8. /\ table'["fields"] \in Seq(ChildRow)
      /\ Grown(table["fields"], table'["fields"])
      /\ field \in DOMAIN table'["fields"]
      /\ table'["fields"][field] = [data |-> s, parent |-> user]
      /\ \A id \in DOMAIN table'["fields"] \ DOMAIN table["fields"] : id = field
    BY <1>3, <1>5, <1>6, GrownByOne DEF field
<1>9. /\ table'["forecasts"] \in Seq(ChildRow)
      /\ Grown(table["forecasts"], table'["forecasts"])
      /\ \A id \in DOMAIN table'["forecasts"] \ DOMAIN table["forecasts"] :
             table'["forecasts"][id] = [data |-> s, parent |-> field]
    BY <1>3, <1>5, <1>6, GrownByOne
<1>10. /\ table'["alerts"] \in Seq(ChildRow)
       /\ Grown(table["alerts"], table'["alerts"])
       /\ \A id \in DOMAIN table'["alerts"] \ DOMAIN table["alerts"] :
              table'["alerts"][id] = [data |-> s, parent |-> field]
    BY <1>3, <1>5, <1>6, GrownByOne
<1>11. TablesOK'
    BY <1>4, <1>5, <1>7, <1>8, <1>9, <1>10 DEF ReadInv, TablesOK
<1>12. \A t \in Tables : Grown(table[t], table'[t])
    BY <1>5, <1>7, <1>8, <1>9, <1>10, SameIsGrown DEF Tables
<1>13. ASSUME NEW t \in DOMAIN Parent, NEW id \in DOMAIN table'[t] \ DOMAIN table[t]
       PROVE  RefersWell(t, id)'
    <2>1. t \in {"fields", "forecasts", "alerts"}
        BY <1>5, ParentTables
    <2>2. CASE t = "fields"
        <3>1. table'[t][id].parent = user /\ table'[t][id].data = s
            BY <1>8, <1>13, <2>2
        <3>2. Parent[t] = "users" /\ table'["users"][user].data = s
            BY <1>7, <2>2 DEF Parent
        <3> QED
            BY <1>7, <3>1, <3>2 DEF RefersWell
    <2>3. CASE t \in {"forecasts", "alerts"}
        <3>1. table'[t][id].parent = field /\ table'[t][id].data = s
            BY <1>9, <1>10, <1>13, <2>3
        <3>2. Parent[t] = "fields" /\ table'["fields"][field].data = s
            BY <1>8, <2>3 DEF Parent
        <3> QED
            BY <1>8, <3>1, <3>2 DEF RefersWell
    <2> QED
        BY <2>1, <2>2, <2>3
<1> QED
    BY <1>1, <1>11, <1>12, <1>13, EndReads DEF InCycle

\* A request adds an alert to the field it found, which is still there.
LEMMA CreateReads ==
    ASSUME ReadInv, LockInv', NEW r \in Requests, CreateAlert(r)
    PROVE  ReadInv'
<1> DEFINE field == found[r][1]
           row == [data |-> found[r][2], parent |-> field]
<1>1. /\ stage[r] = "create" /\ field \in DOMAIN table["fields"]
      /\ table' = [table EXCEPT !["alerts"] = Append(@, row)]
      /\ EndTransaction(r, "done", << >>) /\ r \in Processes
    BY DEF CreateAlert, Reached, Processes
<1>2. table["fields"][field].data = found[r][2]
    BY <1>1 DEF ReadInv, FoundIsCurrent, RequestCurrent
<1>3. row \in ChildRow
    <2>1. table["fields"] \in Seq(ChildRow)
        BY DEF ReadInv, TablesOK
    <2>2. field \in Nat /\ table["fields"][field] \in ChildRow
        BY <1>1, <2>1, LenProperties, ElementOfSeq
    <2> QED
        BY <1>2, <2>2 DEF ChildRow
<1> HIDE DEF field
<1>4. /\ table' = [t \in Tables |-> table'[t]]
      /\ table'["alerts"] = Append(table["alerts"], row)
      /\ \A t \in Tables \ {"alerts"} : table'[t] = table[t]
    BY <1>1 DEF ReadInv, TablesOK, Tables
<1>5. /\ table'["alerts"] \in Seq(ChildRow)
      /\ Grown(table["alerts"], table'["alerts"])
      /\ \A id \in DOMAIN table'["alerts"] \ DOMAIN table["alerts"] : table'["alerts"][id] = row
    BY <1>3, <1>4, GrownByOne DEF ReadInv, TablesOK
<1>6. TablesOK'
    BY <1>4, <1>5 DEF ReadInv, TablesOK, Tables
<1>7. \A t \in Tables : Grown(table[t], table'[t])
    BY <1>4, <1>5, SameIsGrown
<1>8. ASSUME NEW t \in DOMAIN Parent, NEW id \in DOMAIN table'[t] \ DOMAIN table[t]
      PROVE  RefersWell(t, id)'
    <2>1. t = "alerts" /\ Parent[t] = "fields"
        BY <1>4, <1>8, ParentTables DEF Parent
    <2>2. table'[t][id].parent = field /\ table'[t][id].data = found[r][2]
        BY <1>5, <1>8, <2>1
    <2>3. table'["fields"] = table["fields"]
        BY <1>4 DEF Tables
    <2> QED
        BY <1>1, <1>2, <2>1, <2>2, <2>3 DEF RefersWell
<1> QED
    BY <1>1, <1>6, <1>7, <1>8, EndReads DEF InCycle

\* A cycle triggers for finitely many alerts.
LEMMA UntriggeredCount ==
    ASSUME ReadInv, NEW w \in Workers, stage[w] \in InCycle
    PROVE  Cardinality(Untriggered(w)) \in Nat
<1>1. Untriggered(w) \subseteq 1..Len(table["alerts"])
    <2>1. DOMAIN table["alerts"] = 1..Len(table["alerts"])
        BY LenProperties DEF ReadInv, TablesOK
    <2> QED
        BY <2>1 DEF ReadInv, FoundIsCurrent, CycleCurrent, Untriggered
<1>2. Len(table["alerts"]) \in Nat
    BY LenProperties DEF ReadInv, TablesOK
<1>3. IsFiniteSet(1..Len(table["alerts"]))
    BY <1>2, FS_Interval
<1> QED
    BY <1>1, <1>3, FS_Subset, FS_CardinalityType

\* A cycle commits triggers of alerts that are still there, and deliveries of
\* those triggers that have not been posted.
LEMMA CommittedTables ==
    ASSUME ReadInv, NEW w \in Workers, CommitCycle(w)
    PROVE  /\ TablesOK'
           /\ \A t \in Tables : Grown(table[t], table'[t])
           /\ \A t \in DOMAIN Parent : \A id \in DOMAIN table'[t] \ DOMAIN table[t] :
                  RefersWell(t, id)'
           /\ \A id \in DOMAIN table'["deliveries"] \ DOMAIN table["deliveries"] :
                  /\ table'["deliveries"][id].status = "PENDING"
                  /\ table'["deliveries"][id].attempt_count = 0
<1> DEFINE n == Cardinality(Untriggered(w))
           base == Len(table["triggers"])
<1>1. PICK new \in [1..n -> Untriggered(w)] :
          table' = [table EXCEPT
              !["triggers"] = @ \o
                  [i \in DOMAIN new |-> [data |-> found[w][new[i]].data, parent |-> new[i]]],
              !["deliveries"] = @ \o
                  [i \in DOMAIN new |->
                      [data |-> found[w][new[i]].data, parent |-> base + i,
                       status |-> "PENDING", attempt_count |-> 0]]]
    BY DEF CommitCycle
<1> DEFINE triggers ==
               [i \in 1..n |-> [data |-> found[w][new[i]].data, parent |-> new[i]]]
           deliveries ==
               [i \in 1..n |-> [data |-> found[w][new[i]].data, parent |-> base + i,
                                status |-> "PENDING", attempt_count |-> 0]]
<1>2. stage[w] \in InCycle
    BY DEF CommitCycle, Reached, InCycle
<1>3. n \in Nat /\ base \in Nat
    BY <1>2, UntriggeredCount, LenProperties DEF ReadInv, TablesOK
<1>4. DOMAIN new = 1..n
    OBVIOUS
<1> HIDE DEF n, base
<1>5. ASSUME NEW i \in 1..n
      PROVE  /\ new[i] \in DOMAIN table["alerts"] /\ new[i] \in Nat
             /\ found[w][new[i]].data = table["alerts"][new[i]].data
             /\ found[w][new[i]].data \in Seeds
    <2>1. new[i] \in DOMAIN found[w]
        BY DEF Untriggered
    <2>2. /\ new[i] \in DOMAIN table["alerts"]
          /\ found[w][new[i]].data = table["alerts"][new[i]].data
        BY <1>2, <2>1 DEF ReadInv, FoundIsCurrent, CycleCurrent
    <2>3. table["alerts"] \in Seq(ChildRow)
        BY DEF ReadInv, TablesOK
    <2>4. new[i] \in Nat /\ table["alerts"][new[i]] \in ChildRow
        BY <2>2, <2>3, LenProperties, ElementOfSeq
    <2> QED
        BY <2>2, <2>4 DEF ChildRow
<1>6. triggers \in [1..n -> ChildRow] /\ deliveries \in [1..n -> DeliveryRow]
    BY <1>3, <1>5 DEF ChildRow, DeliveryRow
<1>7. /\ \A i \in 1..n : triggers[i].data = found[w][new[i]].data /\ triggers[i].parent = new[i]
      /\ \A i \in 1..n : /\ deliveries[i].data = found[w][new[i]].data
                         /\ deliveries[i].parent = base + i
                         /\ deliveries[i].status = "PENDING" /\ deliveries[i].attempt_count = 0
    OBVIOUS
<1>8. table' = [table EXCEPT !["triggers"] = @ \o triggers, !["deliveries"] = @ \o deliveries]
    BY <1>1, <1>4
<1> HIDE DEF triggers, deliveries
<1>9. /\ table' = [t \in Tables |-> table'[t]]
      /\ table'["triggers"] = table["triggers"] \o triggers
      /\ table'["deliveries"] = table["deliveries"] \o deliveries
      /\ \A t \in Tables \ {"triggers", "deliveries"} : table'[t] = table[t]
    BY <1>8 DEF ReadInv, TablesOK, Tables
<1>10. /\ table["triggers"] \in Seq(ChildRow) /\ base = Len(table["triggers"])
       /\ table["deliveries"] \in Seq(DeliveryRow)
       /\ triggers \in Seq(ChildRow) /\ Len(triggers) = n
       /\ deliveries \in Seq(DeliveryRow) /\ Len(deliveries) = n
    <2>1. triggers \in Seq(ChildRow) /\ Len(triggers) = n
        BY <1>3, <1>6
    <2>2. deliveries \in Seq(DeliveryRow) /\ Len(deliveries) = n
        BY <1>3, <1>6
    <2> QED
        BY <2>1, <2>2 DEF ReadInv, TablesOK, base
<1>11. /\ table'["triggers"] \in Seq(ChildRow)
       /\ Grown(table["triggers"], table'["triggers"])
       /\ DOMAIN table'["triggers"] = 1..base + n
       /\ \A i \in 1..n : table'["triggers"][base + i] = triggers[i]
       /\ \A id \in DOMAIN table'["triggers"] \ DOMAIN table["triggers"] :
              \E i \in 1..n : id = base + i
    BY <1>9, <1>10, GrownByMany
<1>12. /\ table'["deliveries"] \in Seq(DeliveryRow)
       /\ Grown(table["deliveries"], table'["deliveries"])
       /\ \A id \in DOMAIN table'["deliveries"] \ DOMAIN table["deliveries"] :
              \E i \in 1..n : table'["deliveries"][id] = deliveries[i]
    <2> DEFINE old == table["deliveries"]
    <2>1. /\ table'["deliveries"] \in Seq(DeliveryRow)
          /\ Grown(old, table'["deliveries"])
          /\ \A i \in 1..n : table'["deliveries"][Len(old) + i] = deliveries[i]
          /\ \A id \in DOMAIN table'["deliveries"] \ DOMAIN old : \E i \in 1..n : id = Len(old) + i
        BY <1>9, <1>10, GrownByMany
    <2> QED
        BY <2>1
<1>13. TablesOK'
    BY <1>9, <1>11, <1>12 DEF ReadInv, TablesOK, Tables
<1>14. \A t \in Tables : Grown(table[t], table'[t])
    BY <1>9, <1>11, <1>12, SameIsGrown
<1>15. ASSUME NEW t \in DOMAIN Parent, NEW id \in DOMAIN table'[t] \ DOMAIN table[t]
       PROVE  RefersWell(t, id)'
    <2>1. t \in {"triggers", "deliveries"}
        BY <1>9, <1>15, ParentTables
    <2>2. CASE t = "triggers"
        <3>1. PICK i \in 1..n : id = base + i
            BY <1>11, <1>15, <2>2
        <3>2. table'[t][id].data = found[w][new[i]].data /\ table'[t][id].parent = new[i]
            BY <1>7, <1>11, <2>2, <3>1
        <3>3. Parent[t] = "alerts" /\ table'["alerts"] = table["alerts"]
            BY <1>9, <2>2 DEF Parent, Tables
        <3> QED
            BY <1>5, <3>2, <3>3 DEF RefersWell
    <2>3. CASE t = "deliveries"
        <3>1. PICK i \in 1..n : table'["deliveries"][id] = deliveries[i]
            BY <1>12, <1>15, <2>3
        <3>2. table'[t][id].data = found[w][new[i]].data /\ table'[t][id].parent = base + i
            BY <1>7, <2>3, <3>1
        <3>3. Parent[t] = "triggers" /\ base + i \in DOMAIN table'["triggers"]
            BY <1>3, <1>11, <2>3 DEF Parent
        <3>4. table'["triggers"][base + i].data = found[w][new[i]].data
            BY <1>7, <1>11
        <3> QED
            BY <3>2, <3>3, <3>4 DEF RefersWell
    <2> QED
        BY <2>1, <2>2, <2>3
<1>16. \A id \in DOMAIN table'["deliveries"] \ DOMAIN table["deliveries"] :
           /\ table'["deliveries"][id].status = "PENDING"
           /\ table'["deliveries"][id].attempt_count = 0
    BY <1>7, <1>12
<1> QED
    BY <1>13, <1>14, <1>15, <1>16

\* Nothing that is referred to has gone when a cycle commits.
LEMMA CommitReads ==
    ASSUME ReadInv, LockInv', NEW w \in Workers, CommitCycle(w)
    PROVE  ReadInv'
<1>1. EndTransaction(w, "load", << >>) /\ w \in Processes
    BY DEF CommitCycle, Processes
<1> QED
    BY <1>1, CommittedTables, EndReads DEF InCycle

\* What recording an outcome leaves of a row.
LEMMA RecordedRow ==
    ASSUME NEW row \in DeliveryRow, NEW res
    PROVE  /\ Recorded(row, res) \in DeliveryRow
           /\ Recorded(row, res).data = row.data /\ Recorded(row, res).parent = row.parent
           /\ Recorded(row, res).attempt_count = row.attempt_count + 1
           /\ Recorded(row, res).status = "DELIVERED" => res = 202
<1> DEFINE status == IF res = 202 THEN "DELIVERED"
                     ELSE IF row.attempt_count + 1 >= MaxRetries THEN "FAILED"
                     ELSE "RETRYING"
<1>1. Recorded(row, res) = [row EXCEPT !.attempt_count = row.attempt_count + 1, !.status = status]
    BY DEF Recorded
<1>2. status \in {"DELIVERED", "FAILED", "RETRYING"} /\ (status = "DELIVERED" => res = 202)
    OBVIOUS
<1>3. row.attempt_count + 1 \in Nat
    BY DEF DeliveryRow
<1> HIDE DEF status
<1>4. Recorded(row, res) = [data |-> row.data, parent |-> row.parent, status |-> status,
                            attempt_count |-> row.attempt_count + 1]
    BY <1>1 DEF DeliveryRow
<1> QED
    BY <1>2, <1>3, <1>4 DEF DeliveryRow

\* The outcomes of a batch change no reference.
LEMMA ApplyReads ==
    ASSUME ReadInv, LockInv', NEW w \in Workers, Apply(w)
    PROVE  ReadInv'
<1> DEFINE old == table["deliveries"]
           new == [d \in DOMAIN old |-> IF d \in DOMAIN batch[w] THEN Recorded(old[d], answer[w][d])
                                        ELSE old[d]]
<1>1. /\ table' = [table EXCEPT !["deliveries"] = new]
      /\ stage' = [stage EXCEPT ![w] = "load"] /\ found' = found /\ w \in Processes
    BY DEF Apply, Processes
<1>2. old \in Seq(DeliveryRow) /\ Len(old) \in Nat /\ DOMAIN old = 1..Len(old)
    BY LenProperties DEF ReadInv, TablesOK
<1>3. ASSUME NEW d \in DOMAIN old
      PROVE  new[d] \in DeliveryRow /\ new[d].data = old[d].data /\ new[d].parent = old[d].parent
    BY <1>2, RecordedRow, ElementOfSeq
<1>4. new \in [1..Len(old) -> DeliveryRow]
    BY <1>2, <1>3
<1> HIDE DEF new
<1>5. new \in Seq(DeliveryRow) /\ DOMAIN new = DOMAIN old
    BY <1>2, <1>4
<1>6. /\ table' = [t \in Tables |-> table'[t]]
      /\ table'["deliveries"] = new
      /\ \A t \in Tables \ {"deliveries"} : table'[t] = table[t]
    BY <1>1 DEF ReadInv, TablesOK, Tables
<1>7. TablesOK'
    BY <1>5, <1>6 DEF ReadInv, TablesOK, Tables
<1>8. RowsReferWell'
    <2> SUFFICES ASSUME NEW t \in DOMAIN Parent, NEW id \in DOMAIN table'[t]
                 PROVE  RefersWell(t, id)'
        BY DEF RowsReferWell
    <2>1. Parent[t] \in Tables \ {"deliveries"} /\ t \in Tables
        BY ParentTables DEF Parent, Tables
    <2>2. /\ id \in DOMAIN table[t]
          /\ table'[t][id].data = table[t][id].data /\ table'[t][id].parent = table[t][id].parent
        BY <1>3, <1>5, <1>6, <2>1
    <2>3. table'[Parent[t]] = table[Parent[t]]
        BY <1>6, <2>1
    <2> QED
        BY <2>2, <2>3 DEF ReadInv, RowsReferWell, RefersWell
<1>9. FoundIsCurrent'
    <2>1. table'["alerts"] = table["alerts"] /\ table'["fields"] = table["fields"]
        BY <1>6 DEF Tables
    <2>2. stage'[w] = "load"
        BY <1>1 DEF ReadInv, LockInv
    <2>3. CycleCurrent(w)' /\ RequestCurrent(w)'
        BY <2>2 DEF CycleCurrent, RequestCurrent, InCycle
    <2> QED
        BY <1>1, <2>1, <2>3, SameIsGrown, GrownFound DEF ReadInv
<1> QED
    BY <1>1, <1>7, <1>8, <1>9 DEF ReadInv

-----------------------------------------------------------------------------
(* The invariant of references.                                            *)

\* At first there are no rows.
LEMMA ReadInit == Init => ReadInv
<1> SUFFICES ASSUME Init PROVE ReadInv
    OBVIOUS
<1>1. \A t \in Tables : table[t] = << >>
    BY DEF Init
<1>2. TablesOK
    BY <1>1, EmptySeq DEF Init, TablesOK, Tables
<1>3. RowsReferWell
    <2>1. \A t \in Tables : DOMAIN table[t] = {}
        BY <1>1
    <2> QED
        BY <2>1, ParentTables DEF RowsReferWell
<1>4. \A p \in Processes : stage[p] \in {"asleep", "ready"}
    BY DEF Init
<1>5. FoundIsCurrent
    BY <1>4 DEF FoundIsCurrent, CycleCurrent, RequestCurrent, InCycle, Processes
<1>6. found = [p \in Processes |-> found[p]]
    BY DEF Init
<1> QED
    BY <1>2, <1>3, <1>5, <1>6, LockInit DEF ReadInv

\* The steps of a seed command.
LEMMA SeedReads ==
    ASSUME ReadInv, LockInv', NEW s \in Seeds, SeedStep(s) \/ Interrupt(s)
    PROVE  ReadInv'
<1>0. s \in Processes /\ s \notin Workers /\ s \notin Requests
    BY SeedAssumption DEF Processes
<1>1. CASE StartSeed(s)
    <2>1. PICK x : stage' = [stage EXCEPT ![s] = x]
        BY <1>1 DEF StartSeed, Continue
    <2>2. table' = table /\ found' = found
        BY <1>1 DEF StartSeed
    <2> QED
        BY <1>0, <2>1, <2>2, MovedReads DEF ReadInv
<1>2. CASE FoundEmpty(s)
    BY <1>0, <1>2, MovedReads DEF FoundEmpty, Continue, ReadInv
<1>3. CASE SkipSeed(s)
    BY <1>0, <1>3, EndReadsSame DEF SkipSeed, InCycle
<1>4. CASE Interrupt(s)
    BY <1>0, <1>4, EndReadsSame DEF Interrupt, InCycle
<1> QED
    BY <1>1, <1>2, <1>3, <1>4, ResetReads, InsertReads DEF SeedStep

\* The steps of a worker.
LEMMA WorkerReads ==
    ASSUME ReadInv, LockInv', NEW w \in Workers, WorkerStep(w)
    PROVE  ReadInv'
<1>0. w \in Processes /\ w \notin Requests
    BY SeedAssumption DEF Processes
<1>1. ASSUME NEW x, stage' = [stage EXCEPT ![w] = x] PROVE stage'[w] = x
    BY <1>0, <1>1 DEF ReadInv, LockInv
<1>2. CASE StartCycle(w)
    <2>1. /\ stage' = [stage EXCEPT ![w] = "alerts"] /\ table' = table /\ found' = found
        BY <1>2 DEF StartCycle, Continue
    <2>2. CycleCurrent(w)'
        BY <1>1, <2>1 DEF CycleCurrent, InCycle
    <2> QED
        BY <1>0, <2>1, <2>2, MovedReads DEF ReadInv
<1>3. CASE LoadAlerts(w)
    <2>1. table' = table
        BY <1>3 DEF LoadAlerts
    <2>2. CASE EndTransaction(w, "load", << >>)
        BY <1>0, <2>1, <2>2, EndReadsSame DEF InCycle
    <2>3. CASE /\ found' = [found EXCEPT ![w] = table["alerts"]]
               /\ Continue(w, "forecasts", << "forecasts" >>)
        <3>1. found' = [q \in Processes |-> IF q = w THEN table["alerts"] ELSE found[q]]
            BY <2>3 DEF ReadInv
        <3>2. CycleCurrent(w)'
            BY <1>0, <2>1, <3>1 DEF CycleCurrent
        <3>3. stage' = [stage EXCEPT ![w] = "forecasts"]
            BY <2>3 DEF Continue
        <3>4. /\ found' = [q \in Processes |-> found'[q]]
              /\ \A q \in Processes \ {w} : found'[q] = found[q]
            BY <3>1
        <3> QED
            BY <1>0, <2>1, <3>2, <3>3, <3>4, MovedReads
    <2> QED
        BY <1>3, <2>2, <2>3 DEF LoadAlerts
<1>4. ASSUME stage[w] \in InCycle, NEW x \in InCycle, stage' = [stage EXCEPT ![w] = x],
             table' = table, found' = found
      PROVE  ReadInv'
    <2>1. CycleCurrent(w)'
        BY <1>1, <1>4 DEF ReadInv, FoundIsCurrent, CycleCurrent
    <2> QED
        BY <1>0, <1>4, <2>1, MovedReads DEF ReadInv
<1>5. CASE LoadForecasts(w)
    BY <1>4, <1>5 DEF LoadForecasts, Reached, Continue, InCycle
<1>6. CASE InsertTriggers(w)
    BY <1>4, <1>6 DEF InsertTriggers, Reached, Continue, InCycle
<1>7. ASSUME NEW x \in {"asleep", "post"}, stage' = [stage EXCEPT ![w] = x],
             table' = table, found' = found
      PROVE  ReadInv'
    <2>1. CycleCurrent(w)'
        BY <1>1, <1>7 DEF CycleCurrent, InCycle
    <2> QED
        BY <1>0, <1>7, <2>1, MovedReads DEF ReadInv
<1>8. CASE LoadBatch(w)
    <2>1. PICK x \in {"asleep", "post"} : stage' = [stage EXCEPT ![w] = x]
        BY <1>8 DEF LoadBatch
    <2> QED
        BY <1>7, <1>8, <2>1 DEF LoadBatch
<1>9. CASE \E d \in DOMAIN batch[w] : Post(w, d)
    BY <1>9, SameReads DEF Post, lockVars
<1> QED
    BY <1>2, <1>3, <1>5, <1>6, <1>8, <1>9, CommitReads, ApplyReads DEF WorkerStep

\* The steps of a request.
LEMMA RequestReads ==
    ASSUME ReadInv, LockInv', NEW r \in Requests, RequestStep(r)
    PROVE  ReadInv'
<1>0. r \in Processes /\ r \notin Workers
    BY SeedAssumption DEF Processes
<1>1. CASE StartRequest(r)
    <2>1. stage' = [stage EXCEPT ![r] = "field"] /\ table' = table /\ found' = found
        BY <1>1 DEF StartRequest, Continue
    <2>2. stage'[r] = "field"
        BY <1>0, <2>1 DEF ReadInv, LockInv
    <2>3. RequestCurrent(r)'
        BY <2>2 DEF RequestCurrent
    <2> QED
        BY <1>0, <2>1, <2>3, MovedReads DEF ReadInv
<1>2. CASE LoadField(r)
    <2>1. table' = table
        BY <1>2 DEF LoadField
    <2>2. CASE EndTransaction(r, "done", << >>)
        BY <1>0, <2>1, <2>2, EndReadsSame DEF InCycle
    <2>3. CASE /\ \E f \in DOMAIN table["fields"] :
                      found' = [found EXCEPT ![r] = << f, table["fields"][f].data >>]
               /\ Continue(r, "create", << "alerts" >>)
        <3>1. PICK f \in DOMAIN table["fields"] :
                  found' = [found EXCEPT ![r] = << f, table["fields"][f].data >>]
            BY <2>3
        <3>2. found' = [q \in Processes |->
                            IF q = r THEN << f, table["fields"][f].data >> ELSE found[q]]
            BY <3>1 DEF ReadInv
        <3>3. found'[r][1] = f /\ found'[r][2] = table["fields"][f].data
            BY <1>0, <3>2
        <3>4. RequestCurrent(r)'
            BY <2>1, <3>3 DEF RequestCurrent
        <3>5. stage' = [stage EXCEPT ![r] = "create"]
            BY <2>3 DEF Continue
        <3>6. /\ found' = [q \in Processes |-> found'[q]]
              /\ \A q \in Processes \ {r} : found'[q] = found[q]
            BY <3>2
        <3> QED
            BY <1>0, <2>1, <3>4, <3>5, <3>6, MovedReads
    <2> QED
        BY <1>2, <2>2, <2>3 DEF LoadField
<1> QED
    BY <1>1, <1>2, CreateReads DEF RequestStep

\* The invariant is inductive.
LEMMA ReadStep == ReadInv /\ [Next]_vars => ReadInv'
<1> SUFFICES ASSUME ReadInv, [Next]_vars PROVE ReadInv'
    OBVIOUS
<1>1. LockInv'
    BY LockStep DEF ReadInv
<1>2. ASSUME NEW p \in Processes, Lock(p) PROVE ReadInv'
    BY <1>1, <1>2, SameReads DEF Lock
<1>3. ASSUME NEW p \in Processes, Abort(p) PROVE ReadInv'
    <2>1. FailedStage(p) \notin InCycle \cup {"create"}
        BY DEF FailedStage, InCycle
    <2> QED
        BY <1>1, <1>3, <2>1, EndReadsSame DEF Abort
<1>4. CASE UNCHANGED vars
    BY <1>1, <1>4, SameReads DEF vars, lockVars
<1> QED
    BY <1>1, <1>2, <1>3, <1>4, SeedReads, WorkerReads, RequestReads DEF Next

\* The inductive invariant holds throughout.
THEOREM ReadInvariant == Spec => []ReadInv
BY ReadInit, ReadStep, PTL DEF Spec

\* No row refers to a row of another data set, though ids start again: with any
\* number of resets, cycles and requests at once.
THEOREM ReferencesStayGenuine == Spec => []ReferencesAreGenuine
<1>1. ReadInv => ReferencesAreGenuine
    BY DEF ReadInv, RowsReferWell, RefersWell, ReferencesAreGenuine, Rows
<1> QED
    BY <1>1, ReadInvariant, PTL

-----------------------------------------------------------------------------
(* Data sets.                                                              *)
(*                                                                         *)
(* Of two commands that are under way at once, the one that started later  *)
(* saw the other.  A command that is about to insert has found no users,   *)
(* or truncated them: those it will not see were inserted by a command     *)
(* that was under way with it.                                             *)

Active(s) == stage[s] \notin Resting

Beside(s, t) == s \in beside[t] \/ t \in beside[s]

UserIds == DOMAIN table["users"]
DataSet(id) == table["users"][id].data

ApartInv ==
    /\ ReadInv
    /\ beside = [s \in Seeds |-> beside[s]]
    /\ shape = [s \in Seeds |-> shape[s]]
    /\ \A s \in Seeds : Active(s) => shape[s] \in Shapes /\ ShapeIsValid(shape[s])
    /\ \A s, t \in Seeds : s # t /\ Active(s) /\ Active(t) => Beside(s, t)
    /\ \A id \in UserIds : stage[DataSet(id)] = "done"
    /\ \A s \in Seeds : stage[s] = "insert" => \A id \in UserIds : Beside(DataSet(id), s)
    /\ \A i, j \in UserIds : DataSet(i) = DataSet(j) \/ Beside(DataSet(i), DataSet(j))

\* Every user is of some data set.
LEMMA DataSets == ASSUME ReadInv, NEW id \in UserIds PROVE DataSet(id) \in Seeds
<1>1. table["users"] \in Seq(UserRow)
    BY DEF ReadInv, TablesOK
<1>2. table["users"][id] \in UserRow
    BY <1>1, LenProperties, ElementOfSeq DEF UserIds
<1> QED
    BY <1>2 DEF UserRow, DataSet

\* At first no command is under way.
LEMMA ApartInit == Init => ApartInv
<1> SUFFICES ASSUME Init PROVE ApartInv
    OBVIOUS
<1>1. \A s \in Seeds : ~Active(s) /\ stage[s] # "insert"
    BY DEF Init, Active, Resting, Processes
<1>2. UserIds = {}
    BY DEF Init, UserIds, Tables
<1>3. beside = [s \in Seeds |-> beside[s]] /\ shape = [s \in Seeds |-> shape[s]]
    BY DEF Init
<1> QED
    BY <1>1, <1>2, <1>3, ReadInit DEF ApartInv

\* A step of somebody else.
LEMMA OtherApart ==
    ASSUME ApartInv, ReadInv', UNCHANGED seedVars, table'["users"] = table["users"],
           \A s \in Seeds : stage'[s] = stage[s]
    PROVE  ApartInv'
<1>1. beside' = beside /\ shape' = shape
    BY DEF seedVars
<1>2. UserIds' = UserIds /\ \A id \in UserIds : DataSet(id)' = DataSet(id)
    BY DEF UserIds, DataSet
<1>3. \A s \in Seeds : Active(s)' = Active(s)
    BY DEF Active
<1>4. \A s, t : Beside(s, t)' <=> Beside(s, t)
    BY <1>1 DEF Beside
<1>5. \A id \in UserIds : DataSet(id) \in Seeds
    BY DataSets DEF ApartInv
<1> QED
    BY <1>1, <1>2, <1>3, <1>4, <1>5 DEF ApartInv

\* A command starts, and sees those that are under way.
LEMMA StartApart ==
    ASSUME ApartInv, ReadInv', NEW s \in Seeds, StartSeed(s)
    PROVE  ApartInv'
<1>1. /\ stage[s] = "ready" /\ table' = table
      /\ beside' = [beside EXCEPT ![s] = {t \in Seeds : stage[t] \notin Resting}]
      /\ \E args \in Shapes : ShapeIsValid(args) /\ shape' = [shape EXCEPT ![s] = args]
    BY DEF StartSeed
<1>2. PICK x \in {"truncate", "check"} : stage' = [stage EXCEPT ![s] = x]
    BY DEF StartSeed, Continue
<1>3. stage' = [p \in Processes |-> IF p = s THEN x ELSE stage[p]]
    BY <1>2 DEF ApartInv, ReadInv, LockInv
<1>4. beside' = [t \in Seeds |-> IF t = s THEN {q \in Seeds : Active(q)} ELSE beside[t]]
    BY <1>1 DEF ApartInv, Active
<1>5. /\ shape' = [t \in Seeds |-> shape'[t]]
      /\ shape'[s] \in Shapes /\ ShapeIsValid(shape'[s])
      /\ \A t \in Seeds \ {s} : shape'[t] = shape[t]
    BY <1>1 DEF ApartInv
<1>6. /\ \A t \in Seeds \ {s} : stage'[t] = stage[t] /\ Active(t)' = Active(t)
      /\ stage'[s] = x /\ x # "insert"
    BY <1>3 DEF Active, Processes
<1>7. \A t, q \in Seeds \ {s} : Beside(t, q)' <=> Beside(t, q)
    BY <1>4 DEF Beside
<1>8. UserIds' = UserIds /\ \A id \in UserIds : DataSet(id)' = DataSet(id)
    BY <1>1 DEF UserIds, DataSet
<1>9. \A id \in UserIds : DataSet(id) \in Seeds \ {s}
    BY <1>1, DataSets DEF ApartInv
<1>10. \A t, q \in Seeds : t # q /\ Active(t)' /\ Active(q)' => Beside(t, q)'
    <2> SUFFICES ASSUME NEW t \in Seeds, NEW q \in Seeds, t # q, Active(t)', Active(q)'
                 PROVE  Beside(t, q)'
        OBVIOUS
    <2>1. CASE t # s /\ q # s
        BY <1>6, <1>7, <2>1 DEF ApartInv
    <2>2. CASE t = s
        BY <1>4, <1>6, <2>2 DEF Beside
    <2>3. CASE q = s
        BY <1>4, <1>6, <2>3 DEF Beside
    <2> QED
        BY <2>1, <2>2, <2>3
<1>11. \A t \in Seeds : Active(t)' => shape'[t] \in Shapes /\ ShapeIsValid(shape'[t])
    BY <1>5, <1>6 DEF ApartInv
<1>12. \A id \in UserIds' : stage'[DataSet(id)'] = "done"
    BY <1>6, <1>8, <1>9 DEF ApartInv
<1>13. \A t \in Seeds : stage'[t] = "insert" => \A id \in UserIds' : Beside(DataSet(id), t)'
    BY <1>6, <1>7, <1>8, <1>9 DEF ApartInv
<1>14. \A i, j \in UserIds' : DataSet(i)' = DataSet(j)' \/ Beside(DataSet(i), DataSet(j))'
    BY <1>7, <1>8, <1>9 DEF ApartInv
<1>15. beside' = [t \in Seeds |-> beside'[t]]
    BY <1>4
<1> QED
    BY <1>5, <1>10, <1>11, <1>12, <1>13, <1>14, <1>15 DEF ApartInv

\* A command that finds no users, or truncates them, comes to its insert; one
\* that is under way ends.
LEMMA MovedApart ==
    ASSUME ApartInv, ReadInv', NEW s \in Seeds, Active(s), NEW x,
           stage' = [stage EXCEPT ![s] = x],
           UNCHANGED seedVars,
           UserIds' = {} \/ (table'["users"] = table["users"] /\ x \in {"done", "failed"})
    PROVE  ApartInv'
<1>1. beside' = beside /\ shape' = shape
    BY DEF seedVars
<1>2. stage' = [p \in Processes |-> IF p = s THEN x ELSE stage[p]]
    BY DEF ApartInv, ReadInv, LockInv
<1>3. /\ \A t \in Seeds \ {s} : stage'[t] = stage[t] /\ Active(t)' = Active(t)
      /\ stage'[s] = x
    BY <1>2 DEF Active, Processes
<1>4. \A t, q : Beside(t, q)' <=> Beside(t, q)
    BY <1>1 DEF Beside
<1>5. \A t \in Seeds : Active(t)' => Active(t)
    BY <1>3
<1>6. CASE UserIds' = {}
    BY <1>1, <1>4, <1>5, <1>6 DEF ApartInv
<1>7. CASE table'["users"] = table["users"] /\ x \in {"done", "failed"}
    <2>1. UserIds' = UserIds /\ \A id \in UserIds : DataSet(id)' = DataSet(id)
        BY <1>7 DEF UserIds, DataSet
    <2>2. \A id \in UserIds : DataSet(id) \in Seeds \ {s}
        BY DataSets DEF ApartInv, Active, Resting
    <2>3. \A id \in UserIds' : stage'[DataSet(id)'] = "done"
        BY <1>3, <2>1, <2>2 DEF ApartInv
    <2>4. \A t \in Seeds : stage'[t] = "insert" => \A id \in UserIds' : Beside(DataSet(id), t)'
        BY <1>3, <1>4, <1>7, <2>1 DEF ApartInv
    <2>5. \A i, j \in UserIds' : DataSet(i)' = DataSet(j)' \/ Beside(DataSet(i), DataSet(j))'
        BY <1>4, <2>1 DEF ApartInv
    <2> QED
        BY <1>1, <1>4, <1>5, <2>3, <2>4, <2>5 DEF ApartInv
<1> QED
    BY <1>6, <1>7

\* A command inserts its users beside those of commands it was under way with.
LEMMA InsertApart ==
    ASSUME ApartInv, ReadInv', NEW s \in Seeds, InsertSeed(s)
    PROVE  ApartInv'
<1>1. /\ stage[s] = "insert" /\ beside' = beside /\ shape' = shape
      /\ table'["users"] = Append(table["users"], [data |-> s])
      /\ stage' = [stage EXCEPT ![s] = "done"]
    BY DEF InsertSeed, Reached, EndTransaction, seedVars, ApartInv, ReadInv, TablesOK, Tables
<1>2. stage' = [p \in Processes |-> IF p = s THEN "done" ELSE stage[p]]
    BY <1>1 DEF ApartInv, ReadInv, LockInv
<1>3. /\ \A t \in Seeds \ {s} : stage'[t] = stage[t] /\ Active(t)' = Active(t)
      /\ stage'[s] = "done" /\ ~Active(s)' /\ Active(s)
    BY <1>1, <1>2 DEF Active, Resting, Processes
<1>4. \A t, q : Beside(t, q)' <=> Beside(t, q)
    BY <1>1 DEF Beside
<1>5. /\ UserIds \subseteq UserIds'
      /\ \A id \in UserIds : DataSet(id)' = DataSet(id)
      /\ \A id \in UserIds' \ UserIds : DataSet(id)' = s
    <2>1. table["users"] \in Seq(UserRow) /\ [data |-> s] \in UserRow
        BY DEF ApartInv, ReadInv, TablesOK, UserRow
    <2>2. /\ Grown(table["users"], table'["users"])
          /\ \A id \in DOMAIN table'["users"] \ DOMAIN table["users"] :
                 table'["users"][id] = [data |-> s]
        BY <1>1, <2>1, GrownByOne
    <2> QED
        BY <2>2 DEF UserIds, DataSet, Grown
<1>6. \A id \in UserIds : DataSet(id) \in Seeds \ {s}
    BY <1>1, DataSets DEF ApartInv
<1>7. \A id \in UserIds' : stage'[DataSet(id)'] = "done"
    BY <1>3, <1>5, <1>6 DEF ApartInv
<1>8. ASSUME NEW t \in Seeds, stage'[t] = "insert", NEW id \in UserIds'
      PROVE  Beside(DataSet(id), t)'
    <2>1. t # s /\ stage[t] = "insert" /\ Active(t)
        BY <1>3, <1>8 DEF Active, Resting
    <2>2. CASE id \in UserIds
        BY <1>4, <1>5, <2>1, <2>2 DEF ApartInv
    <2>3. CASE id \notin UserIds
        <3>1. Beside(s, t)
            BY <1>3, <2>1 DEF ApartInv
        <3> QED
            BY <1>4, <1>5, <1>8, <2>3, <3>1
    <2> QED
        BY <2>2, <2>3
<1>9. ASSUME NEW i \in UserIds', NEW j \in UserIds'
      PROVE  DataSet(i)' = DataSet(j)' \/ Beside(DataSet(i), DataSet(j))'
    <2>1. CASE i \in UserIds /\ j \in UserIds
        BY <1>4, <1>5, <2>1 DEF ApartInv
    <2>2. CASE i \notin UserIds /\ j \notin UserIds
        BY <1>5, <1>9, <2>2
    <2>3. CASE i \in UserIds /\ j \notin UserIds
        BY <1>1, <1>4, <1>5, <1>9, <2>3 DEF ApartInv
    <2>4. CASE i \notin UserIds /\ j \in UserIds
        <3>1. Beside(DataSet(j), s)
            BY <1>1, <2>4 DEF ApartInv
        <3>2. Beside(s, DataSet(j))
            BY <3>1 DEF Beside
        <3> QED
            BY <1>4, <1>5, <1>9, <2>4, <3>2
    <2> QED
        BY <2>1, <2>2, <2>3, <2>4
<1> QED
    BY <1>1, <1>3, <1>4, <1>7, <1>8, <1>9 DEF ApartInv

\* A worker and a request leave the users, and the seed commands, alone.
LEMMA WorkerApart ==
    ASSUME ApartInv, ReadInv', NEW w \in Workers, WorkerStep(w)
    PROVE  ApartInv'
<1>1. table'["users"] = table["users"] /\ UNCHANGED seedVars
    BY DEF WorkerStep, StartCycle, LoadAlerts, LoadForecasts, InsertTriggers, CommitCycle,
           LoadBatch, Post, Apply, ApartInv, ReadInv, TablesOK, Tables
<1>2. \E x : stage' = [stage EXCEPT ![w] = x]
    <2>1. CASE \E d \in DOMAIN batch[w] : Post(w, d)
        <3>1. stage' = stage
            BY <2>1 DEF Post, lockVars
        <3>2. stage' = [stage EXCEPT ![w] = stage[w]]
            BY <3>1 DEF ApartInv, ReadInv, LockInv, Processes
        <3> QED
            BY <3>2
    <2>2. CASE StartCycle(w) \/ LoadForecasts(w) \/ InsertTriggers(w)
        BY <2>2 DEF StartCycle, LoadForecasts, InsertTriggers, Continue
    <2>3. CASE LoadAlerts(w)
        BY <2>3 DEF LoadAlerts, Continue, EndTransaction
    <2>4. CASE CommitCycle(w)
        BY <2>4 DEF CommitCycle, EndTransaction
    <2>5. CASE LoadBatch(w)
        BY <2>5 DEF LoadBatch
    <2>6. CASE Apply(w)
        BY <2>6 DEF Apply
    <2> QED
        BY <2>1, <2>2, <2>3, <2>4, <2>5, <2>6 DEF WorkerStep
<1>3. \A s \in Seeds : stage'[s] = stage[s]
    BY <1>2, SeedAssumption DEF ApartInv, ReadInv, LockInv, Processes
<1> QED
    BY <1>1, <1>3, OtherApart

\* Those of a request.
LEMMA RequestApart ==
    ASSUME ApartInv, ReadInv', NEW r \in Requests, RequestStep(r)
    PROVE  ApartInv'
<1>1. table'["users"] = table["users"] /\ UNCHANGED seedVars
    BY DEF RequestStep, StartRequest, LoadField, CreateAlert, ApartInv, ReadInv, TablesOK, Tables
<1>2. \E x : stage' = [stage EXCEPT ![r] = x]
    BY DEF RequestStep, StartRequest, LoadField, CreateAlert, Continue, EndTransaction
<1>3. \A s \in Seeds : stage'[s] = stage[s]
    BY <1>2, SeedAssumption DEF ApartInv, ReadInv, LockInv, Processes
<1> QED
    BY <1>1, <1>3, OtherApart

\* The steps of a seed command.
LEMMA SeedApart ==
    ASSUME ApartInv, ReadInv', NEW s \in Seeds, SeedStep(s) \/ Interrupt(s)
    PROVE  ApartInv'
<1>1. CASE Reset(s)
    <2>1. Active(s) /\ UserIds' = {}
        BY <1>1 DEF Reset, Reached, Active, Resting, UserIds, Tables
    <2> QED
        BY <1>1, <2>1, MovedApart DEF Reset, EndTransaction
<1>2. CASE SkipSeed(s)
    <2>1. Active(s) /\ table'["users"] = table["users"]
        BY <1>2 DEF SkipSeed, Reached, Active, Resting
    <2> QED
        BY <1>2, <2>1, MovedApart DEF SkipSeed, EndTransaction
<1>3. CASE FoundEmpty(s)
    <2>1. Active(s) /\ UserIds' = {}
        BY <1>3 DEF FoundEmpty, Reached, Active, Resting, UserIds, HasUsers
    <2> QED
        BY <1>3, <2>1, MovedApart DEF FoundEmpty, Continue
<1>4. CASE Interrupt(s)
    <2>1. Active(s) /\ table'["users"] = table["users"]
        BY <1>4 DEF Interrupt, Active
    <2> QED
        BY <1>4, <2>1, MovedApart DEF Interrupt, EndTransaction
<1> QED
    BY <1>1, <1>2, <1>3, <1>4, StartApart, InsertApart DEF SeedStep

\* PostgreSQL ends a transaction, and with it perhaps a seed command.
LEMMA AbortApart ==
    ASSUME ApartInv, ReadInv', NEW p \in Processes, Abort(p)
    PROVE  ApartInv'
<1>1. /\ stage' = [stage EXCEPT ![p] = FailedStage(p)] /\ UNCHANGED seedVars
      /\ table' = table /\ plan[p] # << >>
    BY DEF Abort, EndTransaction, Deadlocked, WaitsFor
<1>2. CASE p \in Seeds
    <2>1. FailedStage(p) = "failed"
        BY <1>2, SeedAssumption DEF FailedStage
    <2>2. Active(p)
        BY <1>1 DEF Active, ApartInv, ReadInv, LockInv, LocksOf, Unlocked
    <2> QED
        BY <1>1, <1>2, <2>1, <2>2, MovedApart
<1>3. CASE p \notin Seeds
    <2>1. \A s \in Seeds : stage'[s] = stage[s]
        BY <1>1, <1>3 DEF ApartInv, ReadInv, LockInv, Processes
    <2> QED
        BY <1>1, <2>1, OtherApart
<1> QED
    BY <1>2, <1>3

\* Every step.
LEMMA ApartStep == ApartInv /\ [Next]_vars => ApartInv'
<1> SUFFICES ASSUME ApartInv, [Next]_vars PROVE ApartInv'
    OBVIOUS
<1>1. ReadInv'
    BY ReadStep DEF ApartInv
<1>2. ASSUME NEW p \in Processes, Lock(p) PROVE ApartInv'
    BY <1>1, <1>2, OtherApart DEF Lock
<1>3. CASE UNCHANGED vars
    BY <1>1, <1>3, OtherApart DEF vars, lockVars
<1> QED
    BY <1>1, <1>2, <1>3, SeedApart, WorkerApart, RequestApart, AbortApart DEF Next

\* The inductive invariant holds throughout.
THEOREM ApartInvariant == Spec => []ApartInv
BY ApartInit, ApartStep, PTL DEF Spec

\* Two data sets are there together only if their commands were under way at
\* the same time, for any number of commands.
THEOREM DataSetsPileUpOnlyTogether == Spec => []DataSetsPileUpOnlyBeside
<1>1. ApartInv => DataSetsPileUpOnlyBeside
    <2> SUFFICES ASSUME ApartInv, NEW i \in UserIds, NEW j \in UserIds
                 PROVE  DataSet(i) = DataSet(j) \/ Beside(DataSet(i), DataSet(j))
        BY DEF DataSetsPileUpOnlyBeside, Rows, UserIds, DataSet, Beside
    <2> QED
        BY DEF ApartInv
<1> QED
    BY <1>1, ApartInvariant, PTL

\* Whatever arguments the command accepts, the database accepts the data.
THEOREM SeedsStayAccepted == Spec => []SeedsAreAccepted
<1>1. ApartInv => SeedsAreAccepted
    <2> SUFFICES ASSUME ApartInv, NEW s \in Seeds, stage[s] = "insert"
                 PROVE  shape[s] \in StorableShapes
        BY DEF SeedsAreAccepted
    <2> DEFINE args == shape[s]
    <2>1. args \in Shapes /\ ShapeIsValid(args)
        BY DEF ApartInv, Active, Resting
    <2>2. /\ args.users \in Int /\ args.users >= 2
          /\ args.fields_per_user \in Int /\ args.fields_per_user >= 2
          /\ args.forecast_days \in Int /\ args.forecast_days >= 7
        BY <2>1, SeedAssumption DEF ShapeIsValid
    <2> HIDE DEF args
    <2>3. args.users * args.fields_per_user \in Nat /\ args.forecast_days \in Nat
        BY <2>2
    <2>4. SeedIsStorable(args.users * args.fields_per_user, args.forecast_days)
        BY <2>3, DemoDataIsStorable
    <2> QED
        BY <2>1, <2>4 DEF StorableShapes, args
<1> QED
    BY <1>1, ApartInvariant, PTL

-----------------------------------------------------------------------------
(* Batches.                                                                *)

\* What a worker holds of deliveries, it holds while it posts.
BatchesOK ==
    /\ batch = [w \in Workers |-> batch[w]]
    /\ answer = [w \in Workers |-> answer[w]]
    /\ \A w \in Workers : stage[w] # "post" => batch[w] = Nothing /\ answer[w] = Nothing

BatchInv == ReadInv /\ BatchesOK

\* At first nobody posts.
LEMMA BatchInit == Init => BatchInv
BY ReadInit DEF Init, BatchInv, BatchesOK

\* Only the end of its batch takes a worker out of its posts.
LEMMA PostersStay ==
    ASSUME BatchInv, ReadInv', UNCHANGED deliveryVars,
           \A w \in Workers : stage[w] = "post" => stage'[w] = "post"
    PROVE  BatchInv'
BY DEF BatchInv, BatchesOK, deliveryVars

\* Whoever moves, except by its posts, was not posting.
LEMMA MoversDoNotPost ==
    ASSUME ReadInv, NEW p \in Processes, stage[p] # "post", NEW x,
           stage' = [stage EXCEPT ![p] = x]
    PROVE  \A w \in Workers : stage[w] = "post" => stage'[w] = "post"
BY DEF ReadInv, LockInv, Processes

\* The steps that load a batch, post and record.
LEMMA DeliveryBatches ==
    ASSUME BatchInv, ReadInv', NEW w \in Workers,
           LoadBatch(w) \/ (\E d \in DOMAIN batch[w] : Post(w, d)) \/ Apply(w)
    PROVE  BatchInv'
<1>0. w \in Processes
    BY DEF Processes
<1>1. CASE LoadBatch(w)
    <2>1. /\ stage[w] = "load" /\ answer' = answer
          /\ \E ids :
                 /\ \E new : DOMAIN new = ids /\ batch' = [batch EXCEPT ![w] = new]
                             /\ (ids = {} => new = Nothing)
                 /\ stage' = [stage EXCEPT ![w] = IF ids = {} THEN "asleep" ELSE "post"]
        <3> DEFINE rows == table["deliveries"]
                   Loaded(ids) == [d \in ids |-> [trigger |-> rows[d].parent,
                                                  notification |-> Notification(rows[d])]]
        <3>1. PICK ids : /\ batch' = [batch EXCEPT ![w] = Loaded(ids)]
                         /\ stage' = [stage EXCEPT ![w] = IF ids = {} THEN "asleep" ELSE "post"]
            BY <1>1 DEF LoadBatch
        <3>2. DOMAIN Loaded(ids) = ids /\ (ids = {} => Loaded(ids) = Nothing)
            BY DEF Nothing
        <3> HIDE DEF Loaded
        <3> QED
            BY <1>1, <3>1, <3>2 DEF LoadBatch
    <2>2. PICK ids, new : /\ (ids = {} => new = Nothing)
                          /\ batch' = [batch EXCEPT ![w] = new]
                          /\ stage' = [stage EXCEPT ![w] = IF ids = {} THEN "asleep" ELSE "post"]
        BY <2>1
    <2>3. batch' = [v \in Workers |-> IF v = w THEN new ELSE batch[v]]
        BY <2>2 DEF BatchInv, BatchesOK
    <2>4. \A v \in Workers : v # w => stage'[v] = stage[v]
        BY <2>2 DEF BatchInv, ReadInv, LockInv, Processes
    <2>5. stage'[w] # "post" => ids = {}
        BY <1>0, <2>2 DEF BatchInv, ReadInv, LockInv
    <2> QED
        BY <2>1, <2>2, <2>3, <2>4, <2>5 DEF BatchInv, BatchesOK
<1>2. CASE \E d \in DOMAIN batch[w] : Post(w, d)
    <2>1. /\ stage[w] = "post" /\ stage' = stage /\ batch' = batch
          /\ \E new : answer' = [answer EXCEPT ![w] = new]
        BY <1>2 DEF Post, lockVars
    <2>2. PICK new : answer' = [v \in Workers |-> IF v = w THEN new ELSE answer[v]]
        BY <2>1 DEF BatchInv, BatchesOK
    <2> QED
        BY <2>1, <2>2 DEF BatchInv, BatchesOK
<1>3. CASE Apply(w)
    <2>1. /\ batch' = [v \in Workers |-> IF v = w THEN Nothing ELSE batch[v]]
          /\ answer' = [v \in Workers |-> IF v = w THEN Nothing ELSE answer[v]]
        BY <1>3 DEF Apply, Forget, BatchInv, BatchesOK
    <2>2. \A v \in Workers : v # w => stage'[v] = stage[v]
        BY <1>3 DEF Apply, BatchInv, ReadInv, LockInv, Processes
    <2> QED
        BY <2>1, <2>2 DEF BatchInv, BatchesOK
<1> QED
    BY <1>1, <1>2, <1>3

\* All other steps leave the batches alone.
LEMMA BatchStep == BatchInv /\ [Next]_vars => BatchInv'
<1> SUFFICES ASSUME BatchInv, [Next]_vars PROVE BatchInv'
    OBVIOUS
<1>1. ReadInv'
    BY ReadStep DEF BatchInv
<1>2. ASSUME NEW p \in Processes, plan[p] # << >> PROVE stage[p] # "post"
    BY <1>2 DEF BatchInv, ReadInv, LockInv, LocksOf, Unlocked
<1>3. ASSUME NEW p \in Processes, stage[p] # "post",
             \E x : stage' = [stage EXCEPT ![p] = x], UNCHANGED deliveryVars
      PROVE  BatchInv'
    BY <1>1, <1>3, MoversDoNotPost, PostersStay DEF BatchInv
<1>4. ASSUME NEW s \in Seeds, SeedStep(s) \/ Interrupt(s) PROVE BatchInv'
    <2>1. s \in Processes /\ stage[s] # "post"
        BY DEF Processes, BatchInv, ReadInv, LockInv, LocksOf, MayBeAt, SeedStages
    <2>2. /\ \E x : stage' = [stage EXCEPT ![s] = x]
          /\ UNCHANGED deliveryVars
        BY <1>4 DEF SeedStep, StartSeed, Reset, SkipSeed, FoundEmpty, InsertSeed, Interrupt,
                    Continue, EndTransaction
    <2> QED
        BY <1>3, <2>1, <2>2
<1>5. ASSUME NEW w \in Workers, WorkerStep(w) PROVE BatchInv'
    <2>1. CASE LoadBatch(w) \/ (\E d \in DOMAIN batch[w] : Post(w, d)) \/ Apply(w)
        BY <1>1, <2>1, DeliveryBatches
    <2>2. CASE \/ StartCycle(w) \/ LoadAlerts(w) \/ LoadForecasts(w)
               \/ InsertTriggers(w) \/ CommitCycle(w)
        <3>1. w \in Processes /\ stage[w] # "post"
            BY <2>2 DEF StartCycle, LoadAlerts, LoadForecasts, InsertTriggers, CommitCycle,
                        Reached, Processes
        <3>2. /\ \E x : stage' = [stage EXCEPT ![w] = x]
              /\ UNCHANGED deliveryVars
            BY <2>2 DEF StartCycle, LoadAlerts, LoadForecasts, InsertTriggers, CommitCycle,
                        Continue, EndTransaction
        <3> QED
            BY <1>3, <3>1, <3>2
    <2> QED
        BY <1>5, <2>1, <2>2 DEF WorkerStep
<1>6. ASSUME NEW r \in Requests, RequestStep(r) PROVE BatchInv'
    <2>1. r \in Processes /\ stage[r] # "post"
        BY DEF Processes, BatchInv, ReadInv, LockInv, LocksOf, MayBeAt, RequestStages
    <2>2. /\ \E x : stage' = [stage EXCEPT ![r] = x]
          /\ UNCHANGED deliveryVars
        BY <1>6 DEF RequestStep, StartRequest, LoadField, CreateAlert, Continue, EndTransaction
    <2> QED
        BY <1>3, <2>1, <2>2
<1>7. ASSUME NEW p \in Processes, Lock(p) PROVE BatchInv'
    BY <1>1, <1>7, PostersStay DEF Lock
<1>8. ASSUME NEW p \in Processes, Abort(p) PROVE BatchInv'
    <2>1. plan[p] # << >> /\ UNCHANGED deliveryVars /\ (\E x : stage' = [stage EXCEPT ![p] = x])
        BY <1>8 DEF Abort, Deadlocked, WaitsFor, EndTransaction
    <2> QED
        BY <1>2, <1>3, <2>1
<1>9. CASE UNCHANGED vars
    BY <1>1, <1>9, PostersStay DEF vars, lockVars
<1> QED
    BY <1>4, <1>5, <1>6, <1>7, <1>8, <1>9 DEF Next

\* Who holds what while at rest, and who excludes whom.
THEOREM SeedTyped == Spec => []SeedTypeOK
<1>1. BatchInv => SeedTypeOK
    <2> SUFFICES ASSUME BatchInv PROVE SeedTypeOK
        OBVIOUS
    <2>1. DOMAIN table = Tables
        BY DEF BatchInv, ReadInv, TablesOK
    <2>2. \A p \in Processes : stage[p] \in Resting => held[p] = {} /\ plan[p] = << >>
        BY DEF BatchInv, ReadInv, LockInv, LocksOf, Unlocked
    <2>3. \A p \in Processes : Exclusive(p) =>
              \A q \in Processes \ {p} : held[p] \cap held[q] = {}
        BY DEF BatchInv, ReadInv, LockInv, Exclusion
    <2>4. \A w \in Workers : stage[w] # "post" => batch[w] = Nothing
        BY DEF BatchInv, BatchesOK
    <2> QED
        BY <2>1, <2>2, <2>3, <2>4 DEF SeedTypeOK
<1> QED
    BY <1>1, BatchInit, BatchStep, PTL DEF Spec

-----------------------------------------------------------------------------
(* Outcomes, with one worker.                                              *)
(*                                                                         *)
(* While the worker posts nobody creates a delivery, for nobody else runs  *)
(* cycles.  A row it took into its batch is in the table as it was, or its *)
(* id is free.                                                             *)

OneWorker == \A v, w \in Workers : v = w

DeliveryIds == DOMAIN table["deliveries"]
Told(d) == Notification(table["deliveries"][d])

OutcomeInv ==
    /\ BatchInv
    /\ \A w \in Workers : \A d \in DOMAIN batch[w] :
           d \in DeliveryIds => batch[w][d].notification = Told(d)
    /\ \A w \in Workers : DOMAIN answer[w] \subseteq DOMAIN batch[w]
    /\ \A w \in Workers : \A d \in DOMAIN answer[w] :
           \/ answer[w][d] = 202 /\ batch[w][d].notification \in accepted
           \/ answer[w][d] = 500 /\ batch[w][d].notification \in refused
    /\ \A d \in DeliveryIds :
           /\ table["deliveries"][d].status = "DELIVERED" => Told(d) \in accepted
           /\ table["deliveries"][d].attempt_count > 0 => Told(d) \in accepted \cup refused

\* At first there are no deliveries.
LEMMA OutcomeInit == Init => OutcomeInv
<1> SUFFICES ASSUME Init PROVE OutcomeInv
    OBVIOUS
<1>1. DeliveryIds = {}
    BY DEF Init, DeliveryIds, Tables
<1>2. \A w \in Workers : DOMAIN batch[w] = {} /\ DOMAIN answer[w] = {}
    BY DEF Init, Nothing
<1> QED
    BY <1>1, <1>2, BatchInit DEF OutcomeInv

\* A step that neither delivers nor evaluates: what deliveries there are after
\* it were there before.
LEMMA OtherOutcome ==
    ASSUME OutcomeInv, BatchInv', UNCHANGED << deliveryVars, receiverVars >>,
           DeliveryIds' \subseteq DeliveryIds,
           \A d \in DeliveryIds' :
               table'["deliveries"][d] = table["deliveries"][d] /\ Told(d)' = Told(d)
    PROVE  OutcomeInv'
<1>1. batch' = batch /\ answer' = answer /\ accepted' = accepted /\ refused' = refused
    BY DEF deliveryVars, receiverVars
<1> QED
    BY <1>1 DEF OutcomeInv

\* The tables of deliveries and triggers are as they were, or empty.
LEMMA SameTold ==
    ASSUME table'["deliveries"] = table["deliveries"], table'["triggers"] = table["triggers"]
    PROVE  /\ DeliveryIds' = DeliveryIds
           /\ \A d \in DeliveryIds : Told(d)' = Told(d)
BY DEF DeliveryIds, Told, Notification

\* A delivery refers to a trigger, so that it tells the same when triggers are
\* added.
LEMMA GrownTold ==
    ASSUME ReadInv, Grown(table["triggers"], table'["triggers"]), NEW d \in DeliveryIds,
           table'["deliveries"][d].data = table["deliveries"][d].data,
           table'["deliveries"][d].parent = table["deliveries"][d].parent
    PROVE  Told(d)' = Told(d)
<1>1. table["deliveries"][d].parent \in DOMAIN table["triggers"]
    BY ParentTables DEF ReadInv, RowsReferWell, RefersWell, DeliveryIds, Parent
<1> QED
    BY <1>1 DEF Told, Notification, Grown

\* The only worker commits a cycle: it posts nothing.
LEMMA CommitOutcome ==
    ASSUME OneWorker, OutcomeInv, BatchInv', NEW w \in Workers, CommitCycle(w)
    PROVE  OutcomeInv'
<1>1. /\ stage[w] = "deliveries" /\ batch' = batch /\ answer' = answer
      /\ accepted' = accepted /\ refused' = refused
    BY DEF CommitCycle, Reached, deliveryVars, receiverVars
<1>2. \A v \in Workers : batch[v] = Nothing /\ answer[v] = Nothing
    BY <1>1 DEF OneWorker, OutcomeInv, BatchInv, BatchesOK
<1>3. \A v \in Workers : DOMAIN batch'[v] = {} /\ DOMAIN answer'[v] = {}
    BY <1>1, <1>2 DEF Nothing
<1>4. /\ Grown(table["triggers"], table'["triggers"])
      /\ Grown(table["deliveries"], table'["deliveries"])
      /\ \A d \in DeliveryIds' \ DeliveryIds :
             /\ table'["deliveries"][d].status = "PENDING"
             /\ table'["deliveries"][d].attempt_count = 0
    BY CommittedTables DEF OutcomeInv, BatchInv, DeliveryIds, Tables
<1>5. ASSUME NEW d \in DeliveryIds'
      PROVE  /\ table'["deliveries"][d].status = "DELIVERED" => Told(d)' \in accepted'
             /\ table'["deliveries"][d].attempt_count > 0 => Told(d)' \in accepted' \cup refused'
    <2>1. CASE d \in DeliveryIds
        <3>1. table'["deliveries"][d] = table["deliveries"][d]
            BY <1>4, <2>1 DEF Grown, DeliveryIds
        <3>2. Told(d)' = Told(d)
            BY <1>4, <2>1, <3>1, GrownTold DEF OutcomeInv, BatchInv
        <3> QED
            BY <1>1, <2>1, <3>1, <3>2 DEF OutcomeInv
    <2>2. CASE d \notin DeliveryIds
        BY <1>4, <1>5, <2>2
    <2> QED
        BY <2>1, <2>2
<1> QED
    BY <1>3, <1>5 DEF OutcomeInv

\* A batch tells of the rows it is loaded from.
LEMMA LoadOutcome ==
    ASSUME OutcomeInv, BatchInv', NEW w \in Workers, LoadBatch(w)
    PROVE  OutcomeInv'
<1> DEFINE rows == table["deliveries"]
           Loaded(ids) == [d \in ids |-> [trigger |-> rows[d].parent,
                                          notification |-> Notification(rows[d])]]
<1>1. PICK ids : batch' = [batch EXCEPT ![w] = Loaded(ids)]
    BY DEF LoadBatch
<1>2. /\ stage[w] = "load" /\ table' = table /\ answer' = answer
      /\ accepted' = accepted /\ refused' = refused
    BY DEF LoadBatch, receiverVars
<1>3. batch' = [v \in Workers |-> IF v = w THEN Loaded(ids) ELSE batch[v]]
    BY <1>1 DEF OutcomeInv, BatchInv, BatchesOK
<1>4. DOMAIN answer[w] = {}
    BY <1>2 DEF OutcomeInv, BatchInv, BatchesOK, Nothing
<1>5. \A d \in ids : Loaded(ids)[d].notification = Told(d)
    BY DEF Told
<1>6. DeliveryIds' = DeliveryIds /\ \A d \in DeliveryIds : Told(d)' = Told(d)
    BY <1>2, SameTold
<1> HIDE DEF Loaded
<1>7. \A v \in Workers : \A d \in DOMAIN batch'[v] :
          d \in DeliveryIds => batch'[v][d].notification = Told(d)
    <2>1. DOMAIN Loaded(ids) = ids
        BY DEF Loaded
    <2> QED
        BY <1>3, <1>5, <2>1 DEF OutcomeInv
<1>8. \A v \in Workers : v # w => batch'[v] = batch[v]
    BY <1>3
<1> QED
    BY <1>2, <1>4, <1>6, <1>7, <1>8 DEF OutcomeInv

\* An answer is one of the receiver's two.
LEMMA ReceiverAnswers == \A t : Mock!AnswerTo(t) \in {202, 500}
BY DEF Mock!AnswerTo

\* A post is remembered by what was posted and what the receiver said.
LEMMA PostOutcome ==
    ASSUME OutcomeInv, BatchInv', NEW w \in Workers, NEW d \in DOMAIN batch[w], Post(w, d)
    PROVE  OutcomeInv'
<1> DEFINE sent == batch[w][d]
           res == Mock!AnswerTo(sent.trigger)
           said == [e \in (DOMAIN answer[w]) \cup {d} |-> IF e = d THEN res ELSE answer[w][e]]
<1>1. /\ answer' = [answer EXCEPT ![w] = said] /\ batch' = batch /\ table' = table
      /\ refused' = IF res = 500 THEN refused \cup {sent.notification} ELSE refused
      /\ accepted' = IF res = 202 THEN accepted \cup {sent.notification} ELSE accepted
    BY DEF Post
<1>2. res \in {202, 500}
    BY ReceiverAnswers
<1>3. answer' = [v \in Workers |-> IF v = w THEN said ELSE answer[v]]
    BY <1>1 DEF OutcomeInv, BatchInv, BatchesOK
<1>4. /\ DOMAIN said = (DOMAIN answer[w]) \cup {d}
      /\ \A e \in DOMAIN said : said[e] = IF e = d THEN res ELSE answer[w][e]
    OBVIOUS
<1>5. accepted \subseteq accepted' /\ refused \subseteq refused'
    BY <1>1
<1>6. \/ res = 202 /\ batch[w][d].notification \in accepted'
      \/ res = 500 /\ batch[w][d].notification \in refused'
    BY <1>1, <1>2
<1> HIDE DEF said, res, sent
<1>7. \A v \in Workers : DOMAIN answer'[v] \subseteq DOMAIN batch'[v]
    BY <1>1, <1>3, <1>4 DEF OutcomeInv
<1>8. ASSUME NEW v \in Workers, NEW e \in DOMAIN answer'[v]
      PROVE  \/ answer'[v][e] = 202 /\ batch'[v][e].notification \in accepted'
             \/ answer'[v][e] = 500 /\ batch'[v][e].notification \in refused'
    <2>1. CASE v = w /\ e = d
        <3>1. answer'[v][e] = res
            BY <1>3, <1>4, <2>1
        <3> QED
            BY <1>1, <1>6, <2>1, <3>1
    <2>2. CASE ~(v = w /\ e = d)
        <3>1. e \in DOMAIN answer[v] /\ answer'[v][e] = answer[v][e]
            BY <1>3, <1>4, <1>8, <2>2
        <3> QED
            BY <1>1, <1>5, <3>1 DEF OutcomeInv
    <2> QED
        BY <2>1, <2>2
<1>9. DeliveryIds' = DeliveryIds /\ \A x \in DeliveryIds : Told(x)' = Told(x)
    BY <1>1, SameTold
<1> QED
    BY <1>1, <1>5, <1>7, <1>8, <1>9 DEF OutcomeInv

\* The outcomes of a batch are recorded on the rows it told of, or dropped.
LEMMA ApplyOutcome ==
    ASSUME OutcomeInv, BatchInv', NEW w \in Workers, Apply(w)
    PROVE  OutcomeInv'
<1> DEFINE old == table["deliveries"]
           new == [d \in DOMAIN old |-> IF d \in DOMAIN batch[w] THEN Recorded(old[d], answer[w][d])
                                        ELSE old[d]]
<1>1. /\ table' = [table EXCEPT !["deliveries"] = new] /\ Forget(w)
      /\ DOMAIN batch[w] \subseteq DOMAIN answer[w]
      /\ accepted' = accepted /\ refused' = refused
    BY DEF Apply, receiverVars
<1>2. table'["deliveries"] = new /\ table'["triggers"] = table["triggers"]
    BY <1>1 DEF OutcomeInv, BatchInv, ReadInv, TablesOK, Tables
<1>3. ASSUME NEW d \in DeliveryIds
      PROVE  /\ old[d] \in DeliveryRow
             /\ new[d] = IF d \in DOMAIN batch[w] THEN Recorded(old[d], answer[w][d]) ELSE old[d]
    <2>1. old \in Seq(DeliveryRow)
        BY DEF OutcomeInv, BatchInv, ReadInv, TablesOK
    <2> QED
        BY <2>1, LenProperties, ElementOfSeq DEF DeliveryIds
<1>4. DeliveryIds' = DeliveryIds
    BY <1>2 DEF DeliveryIds
<1> HIDE DEF new
<1>5. ASSUME NEW d \in DeliveryIds
      PROVE  new[d].data = old[d].data /\ new[d].parent = old[d].parent
    BY <1>3, RecordedRow
<1>6. ASSUME NEW d \in DeliveryIds PROVE Told(d)' = Told(d)
    BY <1>2, <1>5 DEF Told, Notification
<1>7. ASSUME NEW d \in DeliveryIds
      PROVE  /\ new[d].status = "DELIVERED" => Told(d) \in accepted
             /\ new[d].attempt_count > 0 => Told(d) \in accepted \cup refused
    <2>1. CASE d \in DOMAIN batch[w]
        <3>1. batch[w][d].notification = Told(d) /\ d \in DOMAIN answer[w]
            BY <1>1, <2>1 DEF OutcomeInv
        <3>2. \/ answer[w][d] = 202 /\ Told(d) \in accepted
              \/ answer[w][d] = 500 /\ Told(d) \in refused
            BY <3>1 DEF OutcomeInv
        <3>3. new[d].status = "DELIVERED" => answer[w][d] = 202
            BY <1>3, <2>1, RecordedRow
        <3> QED
            BY <3>2, <3>3
    <2>2. CASE d \notin DOMAIN batch[w]
        BY <1>3, <2>2 DEF OutcomeInv
    <2> QED
        BY <2>1, <2>2
<1>8. /\ batch' = [v \in Workers |-> IF v = w THEN Nothing ELSE batch[v]]
      /\ answer' = [v \in Workers |-> IF v = w THEN Nothing ELSE answer[v]]
    BY <1>1 DEF Forget, OutcomeInv, BatchInv, BatchesOK
<1>9. /\ DOMAIN batch'[w] = {} /\ DOMAIN answer'[w] = {}
      /\ \A v \in Workers \ {w} : batch'[v] = batch[v] /\ answer'[v] = answer[v]
    BY <1>8 DEF Nothing
<1>10. \A d \in DeliveryIds' :
           /\ table'["deliveries"][d].status = "DELIVERED" => Told(d)' \in accepted'
           /\ table'["deliveries"][d].attempt_count > 0 => Told(d)' \in accepted' \cup refused'
    BY <1>1, <1>2, <1>4, <1>6, <1>7
<1>11. \A v \in Workers : \A d \in DOMAIN batch'[v] :
           d \in DeliveryIds' => batch'[v][d].notification = Told(d)'
    BY <1>4, <1>6, <1>9 DEF OutcomeInv
<1>12. \A v \in Workers : \A d \in DOMAIN answer'[v] :
           \/ answer'[v][d] = 202 /\ batch'[v][d].notification \in accepted'
           \/ answer'[v][d] = 500 /\ batch'[v][d].notification \in refused'
    BY <1>1, <1>9 DEF OutcomeInv
<1>13. \A v \in Workers : DOMAIN answer'[v] \subseteq DOMAIN batch'[v]
    BY <1>9 DEF OutcomeInv
<1> QED
    BY <1>10, <1>11, <1>12, <1>13 DEF OutcomeInv

\* The invariant is inductive.
LEMMA OutcomeStep ==
    ASSUME OneWorker, OutcomeInv, [Next]_vars
    PROVE  OutcomeInv'
<1>1. BatchInv'
    BY BatchStep DEF OutcomeInv
<1>2. ASSUME UNCHANGED << deliveryVars, receiverVars >>,
             table'["deliveries"] = table["deliveries"],
             table'["triggers"] = table["triggers"]
      PROVE  OutcomeInv'
    <2>1. /\ DeliveryIds' = DeliveryIds
          /\ \A d \in DeliveryIds : Told(d)' = Told(d)
        BY <1>2, SameTold
    <2> QED
        BY <1>1, <1>2, <2>1, OtherOutcome
<1>3. ASSUME NEW s \in Seeds, SeedStep(s) \/ Interrupt(s) PROVE OutcomeInv'
    <2>1. CASE Reset(s)
        <3>1. DeliveryIds' = {}
            BY <2>1 DEF Reset, DeliveryIds, Tables
        <3> QED
            BY <1>1, <2>1, <3>1, OtherOutcome DEF Reset
    <2>2. CASE ~Reset(s)
        <3>1. /\ UNCHANGED << deliveryVars, receiverVars >>
              /\ table'["deliveries"] = table["deliveries"]
              /\ table'["triggers"] = table["triggers"]
            <4>1. CASE InsertSeed(s)
                BY <4>1 DEF InsertSeed, OutcomeInv, BatchInv, ReadInv, TablesOK, Tables
            <4>2. CASE StartSeed(s) \/ SkipSeed(s) \/ FoundEmpty(s) \/ Interrupt(s)
                BY <4>2 DEF StartSeed, SkipSeed, FoundEmpty, Interrupt
            <4> QED
                BY <1>3, <2>2, <4>1, <4>2 DEF SeedStep
        <3> QED
            BY <1>2, <3>1
    <2> QED
        BY <2>1, <2>2
<1>4. ASSUME NEW w \in Workers, WorkerStep(w) PROVE OutcomeInv'
    <2>1. CASE StartCycle(w) \/ LoadAlerts(w) \/ LoadForecasts(w) \/ InsertTriggers(w)
        BY <1>2, <2>1 DEF StartCycle, LoadAlerts, LoadForecasts, InsertTriggers
    <2> QED
        BY <1>1, <1>4, <2>1, CommitOutcome, LoadOutcome, PostOutcome, ApplyOutcome DEF WorkerStep
<1>5. ASSUME NEW r \in Requests, RequestStep(r) PROVE OutcomeInv'
    <2>1. /\ UNCHANGED << deliveryVars, receiverVars >>
          /\ table'["deliveries"] = table["deliveries"]
          /\ table'["triggers"] = table["triggers"]
        BY <1>5 DEF RequestStep, StartRequest, LoadField, CreateAlert,
                    OutcomeInv, BatchInv, ReadInv, TablesOK, Tables
    <2> QED
        BY <1>2, <2>1
<1>6. ASSUME NEW p \in Processes, Lock(p) \/ Abort(p) PROVE OutcomeInv'
    BY <1>2, <1>6 DEF Lock, Abort
<1>7. CASE UNCHANGED vars
    BY <1>2, <1>7 DEF vars
<1> QED
    BY <1>3, <1>4, <1>5, <1>6, <1>7 DEF Next

\* With one worker, an outcome is only recorded on the notification that was
\* posted, though a reset may give its id to another.
THEOREM OutcomesStayRight ==
    ASSUME OneWorker
    PROVE  Spec => []OutcomesReachTheirRow
<1>1. OutcomeInv => OutcomesReachTheirRow
    BY DEF OutcomeInv, OutcomesReachTheirRow, Rows, DeliveryIds, Told
<1> QED
    BY <1>1, OutcomeInit, OutcomeStep, PTL DEF Spec

=============================================================================
