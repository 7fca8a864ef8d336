-------------------------- MODULE MigrationsProofs --------------------------
(***************************************************************************)
(* Theorems about Migrations.tla, for any number of commands, killed or    *)
(* not, in any order.                                                      *)
(*                                                                         *)
(* The inductive invariant says what the schema of a transaction is by the *)
(* revision it has reached and the statements of the script it has run:    *)
(* what the upgrades up to there make, without what the downgrade has      *)
(* dropped.  The worker index is apart: 0001 and 0003 may each have made   *)
(* it, and 0003's downgrade drops it either way.                           *)
(***************************************************************************)
EXTENDS Migrations, TLAPS

-----------------------------------------------------------------------------
(* What the scripts make and drop.                                         *)

\* The objects that statement x makes.
Names(x) ==
    IF x.do = "create table" THEN x.names
    ELSE IF x.do \in {"add", "add if missing"} THEN {<< x.on, x.name >>} ELSE {}

\* Statement x drops object n of table t.
Removes(x, t, n) ==
    \/ x.do = "drop" /\ t = x.on /\ n = x.name
    \/ x.do = "drop table" /\ t = x.on

\* The first k statements of the upgrade to revision r make object n of table t.
MadeBy(r, k, t, n) == \E i \in 1..k : << t, n >> \in Names(Upgrades[r][i])

Made(r, t, n) == MadeBy(r, Len(Upgrades[r]), t, n)

\* Some upgrade up to revision r makes it.
InRevision(r, t, n) == \E q \in 1..r : Made(q, t, n)

\* The first k statements of the downgrade from revision r drop it.
RemovedBy(r, k, t, n) == \E i \in 1..k : Removes(Downgrades[r][i], t, n)

\* The revisions and the lengths of their scripts.
LEMMA Lengths ==
    /\ Upgrades[1] = Upgrade0001 /\ Upgrades[2] = Upgrade0002 /\ Upgrades[3] = Upgrade0003
    /\ Upgrades[4] = Upgrade0004 /\ Upgrades[5] = Upgrade0005
    /\ Downgrades[1] = Downgrade0001 /\ Downgrades[2] = Downgrade0002
    /\ Downgrades[3] = Downgrade0003 /\ Downgrades[4] = Downgrade0004
    /\ Downgrades[5] = Downgrade0005
    /\ Len(Upgrade0001) = 14 /\ Len(Upgrade0002) = 3 /\ Len(Upgrade0003) = 1
    /\ Len(Upgrade0004) = 4 /\ Len(Upgrade0005) = 11
    /\ Len(Downgrade0001) = 14 /\ Len(Downgrade0002) = 3 /\ Len(Downgrade0003) = 1
    /\ Len(Downgrade0004) = 4 /\ Len(Downgrade0005) = 11
<1>1. Len(Upgrade0005) = 11 /\ Len(Downgrade0005) = 11
    BY DEF Upgrade0005, Downgrade0005, DeliveryChecks
<1> QED
    BY <1>1 DEF Upgrades, Downgrades, Upgrade0001, Upgrade0002, Upgrade0003, Upgrade0004,
       Downgrade0001, Downgrade0002, Downgrade0003, Downgrade0004

\* What one statement makes.
LEMMA Creates ==
    \A a, refs, names, t, n :
        << t, n >> \in Names(CreateTable(a, refs, names)) <=> t = a /\ n \in names \cup {"table"}
BY DEF Names, CreateTable

\* What an index or a constraint adds.
LEMMA Adds ==
    \A a, m, t, n :
        /\ << t, n >> \in Names(Add(a, m)) <=> t = a /\ n = m
        /\ << t, n >> \in Names(AddIfMissing(a, m)) <=> t = a /\ n = m
BY DEF Names, Add, AddIfMissing

\* A change of type makes no object.
LEMMA Alters == \A c, type, o : o \notin Names(Alter(c, type))
BY DEF Names, Alter

\* What each statement of 0001 makes.
LEMMA Names0001 ==
    ASSUME NEW i \in 1..14, NEW t, NEW n
    PROVE  << t, n >> \in Names(Upgrade0001[i]) <=>
               \/ i = 1 /\ t = "users" /\ n \in {"table", "pk"}
               \/ i = 2 /\ t = "fields" /\ n \in {"table", "pk", "fk_user_id"}
               \/ i = 3 /\ t = "fields" /\ n = "ix_fields_user_id"
               \/ i = 4 /\ t = "weather_forecasts" /\
                  n \in {"table", "pk", "fk_field_id",
                         "uq_weather_forecasts_field_id_forecast_date",
                         "rain_probability_pct_bounds", "snow_probability_pct_bounds",
                         "rain_mm_non_negative", "snow_mm_non_negative",
                         "wind_speed_mps_non_negative", "wind_gust_mps_non_negative",
                         "temp_min_le_temp_max"}
               \/ i = 5 /\ t = "weather_forecasts" /\ n = "ix_weather_forecasts_field_id_forecast_date"
               \/ i = 6 /\ t = "alerts" /\ n \in {"table", "pk", "fk_field_id", "lookahead_days_bounds"}
               \/ i = 7 /\ t = "alerts" /\ n = "ix_alerts_field_id_active_deleted"
               \/ i = 8 /\ t = "alerts" /\ n = "ix_alerts_active_deleted_id"
               \/ i = 9 /\ t = "alerts" /\ n = WorkerIndex
               \/ i = 10 /\ t = "alert_triggers" /\
                  n \in {"table", "pk", "fk_alert_id", "fk_weather_forecast_id",
                         "uq_alert_triggers_alert_id_weather_forecast_id"}
               \/ i = 11 /\ t = "alert_triggers" /\ n = "ix_alert_triggers_user_id_created_at"
               \/ i = 12 /\ t = "alert_triggers" /\ n = "ix_alert_triggers_alert_id_created_at"
               \/ i = 13 /\ t = "notification_deliveries" /\
                  n \in {"table", "pk", "fk_trigger_id", "uq_trigger_id", "attempt_count_non_negative"}
               \/ i = 14 /\ t = "notification_deliveries" /\
                  n = "ix_notification_deliveries_status_next_attempt_at"
<1>1. CASE i = 1
    BY <1>1, Creates DEF Upgrade0001
<1>2. CASE i = 2
    BY <1>2, Creates DEF Upgrade0001
<1>3. CASE i = 3
    BY <1>3, Adds DEF Upgrade0001
<1>4. CASE i = 4
    BY <1>4, Creates DEF Upgrade0001
<1>5. CASE i = 5
    BY <1>5, Adds DEF Upgrade0001
<1>6. CASE i = 6
    BY <1>6, Creates DEF Upgrade0001
<1>7. CASE i = 7
    BY <1>7, Adds DEF Upgrade0001
<1>8. CASE i = 8
    BY <1>8, Adds DEF Upgrade0001
<1>9. CASE i = 9
    BY <1>9, Adds DEF Upgrade0001
<1>10. CASE i = 10
    BY <1>10, Creates DEF Upgrade0001
<1>11. CASE i = 11
    BY <1>11, Adds DEF Upgrade0001
<1>12. CASE i = 12
    BY <1>12, Adds DEF Upgrade0001
<1>13. CASE i = 13
    BY <1>13, Creates DEF Upgrade0001
<1>14. CASE i = 14
    BY <1>14, Adds DEF Upgrade0001
<1> QED
    BY <1>1, <1>2, <1>3, <1>4, <1>5, <1>6, <1>7, <1>8, <1>9, <1>10, <1>11, <1>12, <1>13, <1>14

\* 0002 makes nothing.
LEMMA Names0002 == \A i \in 1..3 : \A o : o \notin Names(Upgrade0002[i])
<1> SUFFICES ASSUME NEW i \in 1..3, NEW o
             PROVE  o \notin Names(Upgrade0002[i])
    OBVIOUS
<1>1. CASE i = 1
    BY <1>1, Alters DEF Upgrade0002
<1>2. CASE i = 2
    BY <1>2, Alters DEF Upgrade0002
<1>3. CASE i = 3
    BY <1>3, Alters DEF Upgrade0002
<1> QED
    BY <1>1, <1>2, <1>3

\* 0003 makes the worker index.
LEMMA Names0003 ==
    \A t, n : << t, n >> \in Names(Upgrade0003[1]) <=> t = "alerts" /\ n = WorkerIndex
BY Adds DEF Upgrade0003

\* What each statement of 0004 makes.
LEMMA Names0004 ==
    ASSUME NEW i \in 1..4, NEW t, NEW n
    PROVE  << t, n >> \in Names(Upgrade0004[i]) <=>
               \/ i = 1 /\ t = "alerts" /\ n = "threshold_probability_bounds"
               \/ i = 2 /\ t = "alerts" /\ n = "threshold_non_negative_for_metric"
               \/ i = 3 /\ t = "alert_triggers" /\ n = "threshold_probability_snapshot_bounds"
               \/ i = 4 /\ t = "alert_triggers" /\ n = "threshold_snapshot_non_negative_for_metric"
<1>1. CASE i = 1
    BY <1>1, Adds DEF Upgrade0004
<1>2. CASE i = 2
    BY <1>2, Adds DEF Upgrade0004
<1>3. CASE i = 3
    BY <1>3, Adds DEF Upgrade0004
<1>4. CASE i = 4
    BY <1>4, Adds DEF Upgrade0004
<1> QED
    BY <1>1, <1>2, <1>3, <1>4

\* The statements of 0005, one by one.
LEMMA Statements0005 ==
    /\ Upgrade0005[1] = Alter("message", "TEXT")
    /\ Upgrade0005[2] = Add("alerts", "deleted_alerts_must_be_inactive")
    /\ Upgrade0005[3] = Add("alert_triggers", "lookahead_days_snapshot_bounds")
    /\ Upgrade0005[4] = Add("alerts", "uq_alerts_active_rule")
    /\ \A i \in 5..11 : Upgrade0005[i] = Add("notification_deliveries", DeliveryChecks[i - 4])
    /\ \A i \in 1..7 : Downgrade0005[i] = Drop("notification_deliveries", DeliveryChecks[8 - i])
    /\ Downgrade0005[8] = Drop("alerts", "uq_alerts_active_rule")
    /\ Downgrade0005[9] = Drop("alert_triggers", "lookahead_days_snapshot_bounds")
    /\ Downgrade0005[10] = Drop("alerts", "deleted_alerts_must_be_inactive")
    /\ Downgrade0005[11] = Alter("message", "VARCHAR(500)")
BY DEF Upgrade0005, Downgrade0005, DeliveryChecks

\* What each statement of 0005 makes.
LEMMA Names0005 ==
    ASSUME NEW i \in 1..11, NEW t, NEW n
    PROVE  << t, n >> \in Names(Upgrade0005[i]) <=>
               \/ i = 2 /\ t = "alerts" /\ n = "deleted_alerts_must_be_inactive"
               \/ i = 3 /\ t = "alert_triggers" /\ n = "lookahead_days_snapshot_bounds"
               \/ i = 4 /\ t = "alerts" /\ n = "uq_alerts_active_rule"
               \/ i \in 5..11 /\ t = "notification_deliveries" /\ n = DeliveryChecks[i - 4]
<1>1. CASE i = 1
    BY <1>1, Statements0005, Alters
<1>2. CASE i = 2
    BY <1>2, Statements0005, Adds
<1>3. CASE i = 3
    BY <1>3, Statements0005, Adds
<1>4. CASE i = 4
    BY <1>4, Statements0005, Adds
<1>5. CASE i \in 5..11
    BY <1>5, Statements0005, Adds
<1> QED
    BY <1>1, <1>2, <1>3, <1>4, <1>5

Worker == << "alerts", WorkerIndex >>

\* No statement of 0001 makes what another one makes.
LEMMA Once0001 ==
    ASSUME NEW i \in 1..14, NEW j \in 1..14, NEW t, NEW n,
           << t, n >> \in Names(Upgrade0001[i]), << t, n >> \in Names(Upgrade0001[j])
    PROVE  i = j
<1>1. CASE t = "users"
    BY <1>1, Names0001
<1>2. CASE t = "fields"
    BY <1>2, Names0001
<1>3. CASE t = "weather_forecasts"
    BY <1>3, Names0001
<1>4. CASE t = "alerts"
    BY <1>4, Names0001 DEF WorkerIndex
<1>5. CASE t = "alert_triggers"
    BY <1>5, Names0001
<1>6. CASE t = "notification_deliveries"
    BY <1>6, Names0001
<1> QED
    BY <1>1, <1>2, <1>3, <1>4, <1>5, <1>6, Names0001

\* Nor do those of 0005.
LEMMA Once0005 ==
    ASSUME NEW i \in 1..11, NEW j \in 1..11, NEW t, NEW n,
           << t, n >> \in Names(Upgrade0005[i]), << t, n >> \in Names(Upgrade0005[j])
    PROVE  i = j
<1>1. \A x, y \in 1..7 : DeliveryChecks[x] = DeliveryChecks[y] => x = y
    BY DEF DeliveryChecks
<1> QED
    BY <1>1, Names0005

\* What 0004 and 0005 make is new.
LEMMA New0004 ==
    ASSUME NEW i \in 1..4, NEW t, NEW n, << t, n >> \in Names(Upgrade0004[i])
    PROVE  /\ << t, n >> # Worker
           /\ \A j \in 1..14 : << t, n >> \notin Names(Upgrade0001[j])
<1>1. \/ t = "alerts" /\ n \in {"threshold_probability_bounds", "threshold_non_negative_for_metric"}
      \/ t = "alert_triggers" /\ n \in {"threshold_probability_snapshot_bounds",
                                        "threshold_snapshot_non_negative_for_metric"}
    BY Names0004
<1>2. n # WorkerIndex
    BY <1>1 DEF WorkerIndex
<1>3. ASSUME NEW j \in 1..14, << t, n >> \in Names(Upgrade0001[j])
      PROVE  FALSE
    BY <1>1, <1>2, <1>3, Names0001
<1> QED
    BY <1>2, <1>3 DEF Worker

\* What 0005 makes, nor does 0004.
LEMMA New0005 ==
    ASSUME NEW i \in 1..11, NEW t, NEW n, << t, n >> \in Names(Upgrade0005[i])
    PROVE  /\ << t, n >> # Worker
           /\ \A j \in 1..14 : << t, n >> \notin Names(Upgrade0001[j])
           /\ \A j \in 1..4 : << t, n >> \notin Names(Upgrade0004[j])
<1>1. \A x \in 1..7 : DeliveryChecks[x] \in
          { "response_status_http_bounds", "attempt_count_matches_status",
            "sent_at_matches_status", "delivered_response_status_bounds",
            "delivered_last_error_cleared", "pending_has_no_delivery_result",
            "failed_or_retrying_requires_error" }
    BY DEF DeliveryChecks
<1>2. \/ t = "alerts" /\ n \in {"deleted_alerts_must_be_inactive", "uq_alerts_active_rule"}
      \/ t = "alert_triggers" /\ n = "lookahead_days_snapshot_bounds"
      \/ /\ t = "notification_deliveries"
         /\ n \in { "response_status_http_bounds", "attempt_count_matches_status",
                    "sent_at_matches_status", "delivered_response_status_bounds",
                    "delivered_last_error_cleared", "pending_has_no_delivery_result",
                    "failed_or_retrying_requires_error" }
    BY <1>1, Names0005
<1>3. n # WorkerIndex
    BY <1>2 DEF WorkerIndex
<1>4. ASSUME NEW j \in 1..14, << t, n >> \in Names(Upgrade0001[j])
      PROVE  FALSE
    BY <1>2, <1>3, <1>4, Names0001
<1>5. ASSUME NEW j \in 1..4, << t, n >> \in Names(Upgrade0004[j])
      PROVE  FALSE
    BY <1>2, <1>5, Names0004
<1> QED
    BY <1>3, <1>4, <1>5 DEF Worker

-----------------------------------------------------------------------------
(* The objects of a revision.                                              *)

\* Every revision adds to the one before.
LEMMA NextInRevision ==
    ASSUME NEW r \in Nat, NEW t, NEW n
    PROVE  InRevision(r + 1, t, n) <=> InRevision(r, t, n) \/ Made(r + 1, t, n)
<1>1. \A q : q \in 1..(r + 1) <=> q \in 1..r \/ q = r + 1
    OBVIOUS
<1> QED
    BY <1>1 DEF InRevision

\* The next statement adds to those before.
LEMMA NextMadeBy ==
    ASSUME NEW r, NEW k \in Nat, NEW t, NEW n
    PROVE  MadeBy(r, k + 1, t, n) <=>
               MadeBy(r, k, t, n) \/ << t, n >> \in Names(Upgrades[r][k + 1])
<1>1. \A i : i \in 1..(k + 1) <=> i \in 1..k \/ i = k + 1
    OBVIOUS
<1> QED
    BY <1>1 DEF MadeBy

\* The same on the way down.
LEMMA NextRemovedBy ==
    ASSUME NEW r, NEW k \in Nat, NEW t, NEW n
    PROVE  RemovedBy(r, k + 1, t, n) <=>
               RemovedBy(r, k, t, n) \/ Removes(Downgrades[r][k + 1], t, n)
<1>1. \A i : i \in 1..(k + 1) <=> i \in 1..k \/ i = k + 1
    OBVIOUS
<1> QED
    BY <1>1 DEF RemovedBy

\* What each revision makes.
LEMMA MadeIs ==
    ASSUME NEW t, NEW n
    PROVE  /\ Made(1, t, n) <=> \E i \in 1..14 : << t, n >> \in Names(Upgrade0001[i])
           /\ ~Made(2, t, n)
           /\ Made(3, t, n) <=> << t, n >> = Worker
           /\ Made(4, t, n) <=> \E i \in 1..4 : << t, n >> \in Names(Upgrade0004[i])
           /\ Made(5, t, n) <=> \E i \in 1..11 : << t, n >> \in Names(Upgrade0005[i])
<1>1. ~Made(2, t, n)
    BY Lengths, Names0002 DEF Made, MadeBy
<1>2. Made(3, t, n) <=> << t, n >> = Worker
    BY Lengths, Names0003 DEF Made, MadeBy, Worker
<1> QED
    BY <1>1, <1>2, Lengths DEF Made, MadeBy

\* And all revisions up to each.
LEMMA InRevisionIs ==
    ASSUME NEW t, NEW n
    PROVE  /\ ~InRevision(0, t, n)
           /\ InRevision(1, t, n) <=> Made(1, t, n)
           /\ InRevision(2, t, n) <=> Made(1, t, n)
           /\ InRevision(3, t, n) <=> Made(1, t, n) \/ << t, n >> = Worker
           /\ InRevision(4, t, n) <=> Made(1, t, n) \/ << t, n >> = Worker \/ Made(4, t, n)
           /\ InRevision(5, t, n) <=>
                  Made(1, t, n) \/ << t, n >> = Worker \/ Made(4, t, n) \/ Made(5, t, n)
<1>0. ~InRevision(0, t, n)
    BY DEF InRevision
<1>1. InRevision(1, t, n) <=> InRevision(0, t, n) \/ Made(1, t, n)
    BY NextInRevision, 0 + 1 = 1
<1>2. InRevision(2, t, n) <=> InRevision(1, t, n) \/ Made(2, t, n)
    BY NextInRevision, 1 + 1 = 2
<1>3. InRevision(3, t, n) <=> InRevision(2, t, n) \/ Made(3, t, n)
    BY NextInRevision, 2 + 1 = 3
<1>4. InRevision(4, t, n) <=> InRevision(3, t, n) \/ Made(4, t, n)
    BY NextInRevision, 3 + 1 = 4
<1>5. InRevision(5, t, n) <=> InRevision(4, t, n) \/ Made(5, t, n)
    BY NextInRevision, 4 + 1 = 5
<1> QED
    BY <1>0, <1>1, <1>2, <1>3, <1>4, <1>5, MadeIs

\* A statement of an upgrade makes what no statement before has made, the worker
\* index aside.
LEMMA MadeIsNew ==
    ASSUME NEW r \in 0..4, NEW k \in 0..(Len(Upgrades[r + 1]) - 1), NEW t, NEW n,
           << t, n >> \in Names(Upgrades[r + 1][k + 1]), << t, n >> # Worker \/ r = 0
    PROVE  ~InRevision(r, t, n) /\ ~MadeBy(r + 1, k, t, n)
<1>1. CASE r = 0
    <2>0. Upgrades[r + 1] = Upgrade0001 /\ Len(Upgrade0001) = 14
        BY <1>1, Lengths
    <2>1. k + 1 \in 1..14 /\ << t, n >> \in Names(Upgrade0001[k + 1])
        BY <2>0
    <2>2. ~MadeBy(1, k, t, n)
        <3> SUFFICES ASSUME NEW i \in 1..k, << t, n >> \in Names(Upgrade0001[i])
                     PROVE  FALSE
            BY Lengths DEF MadeBy
        <3>1. i \in 1..14 /\ i # k + 1
            BY <2>1
        <3> QED
            BY <2>1, <3>1, Once0001
    <2> QED
        BY <1>1, <2>2, InRevisionIs
<1>2. CASE r \in {1, 2}
    <2>1. ASSUME r = 1
          PROVE  FALSE
        <3>1. Upgrades[r + 1] = Upgrade0002 /\ Len(Upgrade0002) = 3
            BY <2>1, Lengths
        <3> QED
            BY <3>1, Names0002
    <2>2. r = 2
        BY <1>2, <2>1
    <2>3. Upgrades[r + 1] = Upgrade0003 /\ Len(Upgrade0003) = 1
        BY <2>2, Lengths
    <2>4. k = 0
        BY <2>3
    <2> QED
        BY <2>2, <2>3, <2>4, Names0003 DEF Worker
<1>3. CASE r = 3
    <2>0. Upgrades[r + 1] = Upgrade0004 /\ Len(Upgrade0004) = 4
        BY <1>3, Lengths
    <2>1. k + 1 \in 1..4 /\ << t, n >> \in Names(Upgrade0004[k + 1])
        BY <2>0
    <2>2. ~MadeBy(4, k, t, n)
        <3> SUFFICES ASSUME NEW i \in 1..k, << t, n >> \in Names(Upgrade0004[i])
                     PROVE  FALSE
            BY Lengths DEF MadeBy
        <3>1. i \in 1..4 /\ i # k + 1
            BY <2>1
        <3> QED
            BY <2>1, <3>1, Names0004
    <2>3. ~Made(1, t, n)
        BY <2>1, New0004, MadeIs
    <2> QED
        BY <1>3, <2>2, <2>3, InRevisionIs
<1>4. CASE r = 4
    <2>0. Upgrades[r + 1] = Upgrade0005 /\ Len(Upgrade0005) = 11
        BY <1>4, Lengths
    <2>1. k + 1 \in 1..11 /\ << t, n >> \in Names(Upgrade0005[k + 1])
        BY <2>0
    <2>2. ~MadeBy(5, k, t, n)
        <3> SUFFICES ASSUME NEW i \in 1..k, << t, n >> \in Names(Upgrade0005[i])
                     PROVE  FALSE
            BY Lengths DEF MadeBy
        <3>1. i \in 1..11 /\ i # k + 1
            BY <2>1
        <3> QED
            BY <2>1, <3>1, Once0005
    <2>3. ~Made(1, t, n) /\ ~Made(4, t, n)
        BY <2>1, New0005, MadeIs
    <2> QED
        BY <1>4, <2>2, <2>3, InRevisionIs
<1> QED
    BY <1>1, <1>2, <1>3, <1>4

-----------------------------------------------------------------------------
(* The schema on its way from one revision to another.                     *)

Integers0002 == {"metrics", "threshold_value", "snapshot_values"}

\* A record of pairs and of types of the columns.
IsSchema(s) ==
    /\ s = [objects |-> s.objects, types |-> s.types]
    /\ s.types = [c \in Columns |-> s.types[c]]
    /\ \A o \in s.objects : \E t, n : o = << t, n >>

\* The types that revision r and those before it have changed for good.
TypesSince(types, r) ==
    /\ r >= 2 => \A c \in Integers0002 : types[c] = "INTEGER"
    /\ r = 5 => types["message"] = "TEXT"

\* Schema s is that of revision r.
IsAt(s, r) ==
    /\ IsSchema(s)
    /\ \A t, n : << t, n >> # Worker => (<< t, n >> \in s.objects <=> InRevision(r, t, n))
    /\ r = 0 => Worker \notin s.objects
    /\ r >= 3 => Worker \in s.objects
    /\ TypesSince(s.types, r)

\* Schema s is past the first k statements of the upgrade from revision r.
IsGoingUp(s, r, k) ==
    /\ IsSchema(s)
    /\ \A t, n : << t, n >> # Worker =>
           (<< t, n >> \in s.objects <=> InRevision(r, t, n) \/ MadeBy(r + 1, k, t, n))
    /\ r = 0 => (Worker \in s.objects <=> MadeBy(1, k, "alerts", WorkerIndex))
    /\ r >= 3 \/ (r = 2 /\ k = 1) => Worker \in s.objects
    /\ TypesSince(s.types, r)
    /\ \A i \in 1..k : Upgrades[r + 1][i].do = "alter" =>
           s.types[Upgrades[r + 1][i].column] = Upgrades[r + 1][i].type

\* Schema s is past the first k statements of the downgrade from revision r.
IsGoingDown(s, r, k) ==
    /\ IsSchema(s)
    /\ \A t, n : << t, n >> # Worker =>
           (<< t, n >> \in s.objects <=> InRevision(r, t, n) /\ ~RemovedBy(r, k, t, n))
    /\ RemovedBy(r, k, "alerts", WorkerIndex) => Worker \notin s.objects
    /\ r >= 3 /\ ~RemovedBy(r, k, "alerts", WorkerIndex) => Worker \in s.objects
    /\ TypesSince(s.types, r - 1)

\* A script starts from the schema of its revision.
LEMMA Starts ==
    ASSUME NEW s, NEW r \in 0..5, IsAt(s, r)
    PROVE  IsGoingUp(s, r, 0) /\ IsGoingDown(s, r, 0)
<1>1. \A q, t, n : ~MadeBy(q, 0, t, n) /\ ~RemovedBy(q, 0, t, n)
    BY DEF MadeBy, RemovedBy
<1>2. TypesSince(s.types, r - 1)
    BY DEF IsAt, TypesSince
<1> QED
    BY <1>1, <1>2 DEF IsAt, IsGoingUp, IsGoingDown

\* The statement of 0001 that creates each table.
CreatedAt ==
    [ users |-> 1, fields |-> 2, weather_forecasts |-> 4, alerts |-> 6, alert_triggers |-> 10,
      notification_deliveries |-> 13 ]

Tables == DOMAIN CreatedAt

\* The tables, in the order of 0001.
LEMMA Creation ==
    /\ Tables = { "users", "fields", "weather_forecasts", "alerts", "alert_triggers",
                  "notification_deliveries" }
    /\ CreatedAt["users"] = 1 /\ CreatedAt["fields"] = 2
    /\ CreatedAt["weather_forecasts"] = 4 /\ CreatedAt["alerts"] = 6
    /\ CreatedAt["alert_triggers"] = 10 /\ CreatedAt["notification_deliveries"] = 13
BY DEF Tables, CreatedAt

\* That statement, and no other of 0001, makes the table.
LEMMA Created ==
    ASSUME NEW t \in Tables
    PROVE  /\ CreatedAt[t] \in 1..14
           /\ \A i \in 1..14 : << t, "table" >> \in Names(Upgrade0001[i]) <=> i = CreatedAt[t]
<1>3. CreatedAt[t] \in 1..14
    BY Creation
<1>4. << t, "table" >> \in Names(Upgrade0001[CreatedAt[t]])
    BY Creation, Names0001
<1>5. ASSUME NEW i \in 1..14, << t, "table" >> \in Names(Upgrade0001[i])
      PROVE  i = CreatedAt[t]
    BY <1>3, <1>4, <1>5, Once0001
<1> QED
    BY <1>3, <1>4, <1>5

\* The tables are there from the first revision on.
LEMMA TablesThere ==
    ASSUME NEW r \in 1..5, NEW t \in Tables
    PROVE  InRevision(r, t, "table")
<1>1. Made(1, t, "table")
    BY Created, MadeIs
<1> QED
    BY <1>1, InRevisionIs

-----------------------------------------------------------------------------
(* Upgrades.                                                               *)

\* A statement of 0001 creates a table after the tables it refers to, or adds to a
\* table created before.
IsInOrder(x, i) ==
    \/ /\ x.do = "create table"
       /\ x.on \in Tables /\ CreatedAt[x.on] = i
       /\ \A u \in x.refs : u \in Tables /\ CreatedAt[u] < i
    \/ /\ x.do = "add"
       /\ x.on \in Tables /\ CreatedAt[x.on] < i

\* Every statement of 0001 keeps to that order.
LEMMA InOrder0001 == \A i \in 1..14 : IsInOrder(Upgrade0001[i], i)
<1> SUFFICES ASSUME NEW i \in 1..14
             PROVE  IsInOrder(Upgrade0001[i], i)
    OBVIOUS
<1>1. CASE i = 1
    <2>1. /\ Upgrade0001[i].do = "create table" /\ Upgrade0001[i].on = "users"
          /\ \A u : u \notin Upgrade0001[i].refs
        BY <1>1 DEF Upgrade0001, CreateTable
    <2> QED
        BY <1>1, <2>1, Creation DEF IsInOrder
<1>2. CASE i = 2
    <2>1. /\ Upgrade0001[i].do = "create table" /\ Upgrade0001[i].on = "fields"
          /\ \A u \in Upgrade0001[i].refs : u = "users"
        BY <1>2 DEF Upgrade0001, CreateTable
    <2>2. ASSUME NEW u \in Upgrade0001[i].refs
          PROVE  u \in Tables /\ CreatedAt[u] < i
        <3>1. u = "users"
            BY <2>1
        <3> QED
            BY <1>2, <3>1, Creation
    <2> QED
        BY <1>2, <2>1, <2>2, Creation DEF IsInOrder
<1>3. CASE i = 3
    <2>1. Upgrade0001[i].do = "add" /\ Upgrade0001[i].on = "fields"
        BY <1>3 DEF Upgrade0001, Add
    <2> QED
        BY <1>3, <2>1, Creation DEF IsInOrder
<1>4. CASE i = 4
    <2>1. /\ Upgrade0001[i].do = "create table" /\ Upgrade0001[i].on = "weather_forecasts"
          /\ \A u \in Upgrade0001[i].refs : u = "fields"
        BY <1>4 DEF Upgrade0001, CreateTable
    <2>2. ASSUME NEW u \in Upgrade0001[i].refs
          PROVE  u \in Tables /\ CreatedAt[u] < i
        <3>1. u = "fields"
            BY <2>1
        <3> QED
            BY <1>4, <3>1, Creation
    <2> QED
        BY <1>4, <2>1, <2>2, Creation DEF IsInOrder
<1>5. CASE i = 5
    <2>1. Upgrade0001[i].do = "add" /\ Upgrade0001[i].on = "weather_forecasts"
        BY <1>5 DEF Upgrade0001, Add
    <2> QED
        BY <1>5, <2>1, Creation DEF IsInOrder
<1>6. CASE i = 6
    <2>1. /\ Upgrade0001[i].do = "create table" /\ Upgrade0001[i].on = "alerts"
          /\ \A u \in Upgrade0001[i].refs : u = "fields"
        BY <1>6 DEF Upgrade0001, CreateTable
    <2>2. ASSUME NEW u \in Upgrade0001[i].refs
          PROVE  u \in Tables /\ CreatedAt[u] < i
        <3>1. u = "fields"
            BY <2>1
        <3> QED
            BY <1>6, <3>1, Creation
    <2> QED
        BY <1>6, <2>1, <2>2, Creation DEF IsInOrder
<1>7. CASE i = 7
    <2>1. Upgrade0001[i].do = "add" /\ Upgrade0001[i].on = "alerts"
        BY <1>7 DEF Upgrade0001, Add
    <2> QED
        BY <1>7, <2>1, Creation DEF IsInOrder
<1>8. CASE i = 8
    <2>1. Upgrade0001[i].do = "add" /\ Upgrade0001[i].on = "alerts"
        BY <1>8 DEF Upgrade0001, Add
    <2> QED
        BY <1>8, <2>1, Creation DEF IsInOrder
<1>9. CASE i = 9
    <2>1. Upgrade0001[i].do = "add" /\ Upgrade0001[i].on = "alerts"
        BY <1>9 DEF Upgrade0001, Add
    <2> QED
        BY <1>9, <2>1, Creation DEF IsInOrder
<1>10. CASE i = 10
    <2>1. /\ Upgrade0001[i].do = "create table" /\ Upgrade0001[i].on = "alert_triggers"
          /\ \A u \in Upgrade0001[i].refs : u = "alerts" \/ u = "weather_forecasts"
        BY <1>10 DEF Upgrade0001, CreateTable
    <2>2. ASSUME NEW u \in Upgrade0001[i].refs
          PROVE  u \in Tables /\ CreatedAt[u] < i
        <3>1. u = "alerts" \/ u = "weather_forecasts"
            BY <2>1
        <3> QED
            BY <1>10, <3>1, Creation
    <2> QED
        BY <1>10, <2>1, <2>2, Creation DEF IsInOrder
<1>11. CASE i = 11
    <2>1. Upgrade0001[i].do = "add" /\ Upgrade0001[i].on = "alert_triggers"
        BY <1>11 DEF Upgrade0001, Add
    <2> QED
        BY <1>11, <2>1, Creation DEF IsInOrder
<1>12. CASE i = 12
    <2>1. Upgrade0001[i].do = "add" /\ Upgrade0001[i].on = "alert_triggers"
        BY <1>12 DEF Upgrade0001, Add
    <2> QED
        BY <1>12, <2>1, Creation DEF IsInOrder
<1>13. CASE i = 13
    <2>1. /\ Upgrade0001[i].do = "create table" /\ Upgrade0001[i].on = "notification_deliveries"
          /\ \A u \in Upgrade0001[i].refs : u = "alert_triggers"
        BY <1>13 DEF Upgrade0001, CreateTable
    <2>2. ASSUME NEW u \in Upgrade0001[i].refs
          PROVE  u \in Tables /\ CreatedAt[u] < i
        <3>1. u = "alert_triggers"
            BY <2>1
        <3> QED
            BY <1>13, <3>1, Creation
    <2> QED
        BY <1>13, <2>1, <2>2, Creation DEF IsInOrder
<1>14. CASE i = 14
    <2>1. Upgrade0001[i].do = "add" /\ Upgrade0001[i].on = "notification_deliveries"
        BY <1>14 DEF Upgrade0001, Add
    <2> QED
        BY <1>14, <2>1, Creation DEF IsInOrder
<1> QED
    BY <1>1, <1>2, <1>3, <1>4, <1>5, <1>6, <1>7, <1>8, <1>9,
       <1>10, <1>11, <1>12, <1>13, <1>14

\* The columns whose type changes and their types at head.
LEMMA ColumnTypes ==
    /\ Columns = {"metrics", "threshold_value", "snapshot_values", "message"}
    /\ \A c \in Columns : TableOf[c] \in Tables
    /\ \A c \in Integers0002 : c \in Columns /\ TypeAtHead[c] = "INTEGER" /\ c # "message"
    /\ TypeAtHead["message"] = "TEXT"
    /\ TypeAtHead = [c \in Columns |-> TypeAtHead[c]]
<1>1. Columns = {"metrics", "threshold_value", "snapshot_values", "message"}
    BY DEF Columns, TableOf
<1>2. /\ TableOf["metrics"] = "weather_forecasts" /\ TableOf["threshold_value"] = "alerts"
      /\ TableOf["snapshot_values"] = "alert_triggers" /\ TableOf["message"] = "alert_triggers"
    BY DEF TableOf
<1>3. \A c \in Columns : TableOf[c] \in Tables
    BY <1>1, <1>2, Creation
<1>4. \A c \in Integers0002 : c \in Columns /\ c # "message"
    BY <1>1 DEF Integers0002
<1> QED
    BY <1>1, <1>3, <1>4 DEF TypeAtHead

\* What a statement of a later upgrade does.
IsLater(x, r) ==
    \/ /\ x.do = "add"
       /\ x.on \in Tables
    \/ /\ x.do = "add if missing" /\ r = 3
       /\ x.on = "alerts" /\ x.name = WorkerIndex
    \/ /\ x.do = "alter" /\ r \in {2, 5}
       /\ x.column \in Columns /\ (r = 5 => x.column = "message")
       /\ x.type = TypeAtHead[x.column]

\* The upgrades after 0001 do nothing else.
LEMMA LaterUpgrades == \A r \in 2..5 : \A i \in 1..Len(Upgrades[r]) : IsLater(Upgrades[r][i], r)
<1> SUFFICES ASSUME NEW r \in 2..5, NEW i \in 1..Len(Upgrades[r])
             PROVE  IsLater(Upgrades[r][i], r)
    OBVIOUS
<1>1. CASE r = 2
    <2>1. Upgrades[r][i] = Upgrade0002[i] /\ i \in 1..3
        BY <1>1, Lengths
    <2>2. /\ Upgrade0002[i].do = "alter" /\ Upgrade0002[i].column \in Integers0002
          /\ Upgrade0002[i].type = "INTEGER"
        BY <2>1 DEF Upgrade0002, Alter, Integers0002
    <2>3. /\ Upgrade0002[i].column \in Columns
          /\ TypeAtHead[Upgrade0002[i].column] = "INTEGER"
        BY <2>2, ColumnTypes
    <2>4. IsLater(Upgrade0002[i], 2)
        BY <2>2, <2>3 DEF IsLater
    <2> QED
        BY <1>1, <2>1, <2>4
<1>2. CASE r = 3
    <2>1. Upgrades[r][i] = Upgrade0003[1]
        BY <1>2, Lengths
    <2>2. IsLater(Upgrade0003[1], 3)
        BY DEF Upgrade0003, AddIfMissing, IsLater
    <2> QED
        BY <1>2, <2>1, <2>2
<1>3. CASE r = 4
    <2>1. Upgrades[r][i] = Upgrade0004[i] /\ i \in 1..4
        BY <1>3, Lengths
    <2>2. Upgrade0004[i].do = "add" /\ Upgrade0004[i].on \in {"alerts", "alert_triggers"}
        BY <2>1 DEF Upgrade0004, Add
    <2> QED
        BY <2>1, <2>2, Creation DEF IsLater
<1>4. CASE r = 5
    <2>1. Upgrades[r][i] = Upgrade0005[i] /\ i \in 1..11
        BY <1>4, Lengths
    <2>2. CASE i = 1
        BY <1>4, <2>1, <2>2, Statements0005, ColumnTypes DEF Alter, IsLater
    <2>3. CASE i # 1
        <3>1. /\ Upgrade0005[i].do = "add"
              /\ Upgrade0005[i].on \in {"alerts", "alert_triggers", "notification_deliveries"}
            BY <2>1, <2>3, Statements0005 DEF Add
        <3> QED
            BY <2>1, <3>1, Creation DEF IsLater
    <2> QED
        BY <2>2, <2>3
<1> QED
    BY <1>1, <1>2, <1>3, <1>4

\* No column is altered twice by one script.
LEMMA AlteredOnce ==
    ASSUME NEW r \in 1..5, NEW i \in 1..Len(Upgrades[r]), NEW j \in 1..Len(Upgrades[r]),
           Upgrades[r][i].do = "alter", Upgrades[r][j].do = "alter",
           Upgrades[r][i].column = Upgrades[r][j].column
    PROVE  i = j
<1>1. CASE r = 1
    <2>1. Upgrades[r][i] = Upgrade0001[i] /\ i \in 1..14
        BY <1>1, Lengths
    <2> QED
        BY <2>1, InOrder0001 DEF IsInOrder
<1>2. CASE r = 2
    <2>1. /\ Upgrades[r][i] = Upgrade0002[i] /\ i \in 1..3
          /\ Upgrades[r][j] = Upgrade0002[j] /\ j \in 1..3
        BY <1>2, Lengths
    <2>2. /\ Upgrade0002[1].column = "metrics" /\ Upgrade0002[2].column = "threshold_value"
          /\ Upgrade0002[3].column = "snapshot_values"
        BY DEF Upgrade0002, Alter
    <2> QED
        BY <2>1, <2>2
<1>3. CASE r \in {3, 4}
    <2>1. IsLater(Upgrades[r][i], r)
        BY <1>3, LaterUpgrades
    <2> QED
        BY <1>3, <2>1 DEF IsLater
<1>4. CASE r = 5
    <2>1. /\ Upgrades[r][i] = Upgrade0005[i] /\ i \in 1..11
          /\ Upgrades[r][j] = Upgrade0005[j] /\ j \in 1..11
        BY <1>4, Lengths
    <2>2. \A p \in {2, 3, 4} : Upgrade0005[p].do = "add"
        BY Statements0005 DEF Add
    <2>3. \A p \in 5..11 : Upgrade0005[p].do = "add"
        BY Statements0005 DEF Add
    <2>4. ASSUME NEW p \in 1..11, Upgrade0005[p].do = "alter"
          PROVE  p = 1
        <3>1. p \notin {2, 3, 4} /\ p \notin 5..11
            BY <2>2, <2>3, <2>4
        <3> QED
            BY <3>1
    <2>5. Upgrade0005[i].do = "alter" /\ Upgrade0005[j].do = "alter"
        BY <2>1
    <2> QED
        BY <2>1, <2>4, <2>5
<1> QED
    BY <1>1, <1>2, <1>3, <1>4

\* The statements of upgrades, whatever they are about.
IsAdding(x) ==
    \/ x.do = "create table" /\ \A o \in x.names : \E t, n : o = << t, n >>
    \/ x.do \in {"add", "add if missing"}
    \/ x.do = "alter" /\ x.column \in Columns

\* No upgrade drops anything.
LEMMA UpgradesAdd == \A r \in 1..5 : \A i \in 1..Len(Upgrades[r]) : IsAdding(Upgrades[r][i])
<1> SUFFICES ASSUME NEW r \in 1..5, NEW i \in 1..Len(Upgrades[r])
             PROVE  IsAdding(Upgrades[r][i])
    OBVIOUS
<1>1. CASE r = 1
    <2>1. Upgrades[r][i] = Upgrade0001[i] /\ i \in 1..14
        BY <1>1, Lengths
    <2>2. IsInOrder(Upgrade0001[i], i)
        BY <2>1, InOrder0001
    <2>3. CASE Upgrade0001[i].do = "add"
        BY <2>1, <2>3 DEF IsAdding
    <2>4. CASE Upgrade0001[i].do = "create table"
        <3>1. i \in {1, 2, 4, 6, 10, 13}
            BY <2>2, <2>4, Creation DEF IsInOrder
        <3>2. \A o \in Upgrade0001[i].names : \E t, n : o = << t, n >>
            <4>1. \A a, refs, names :
                      \A o \in CreateTable(a, refs, names).names : \E t, n : o = << t, n >>
                BY DEF CreateTable
            <4>2. CASE i \in {1, 2}
                BY <4>1, <4>2 DEF Upgrade0001
            <4>3. CASE i \in {4, 6}
                BY <4>1, <4>3 DEF Upgrade0001
            <4>4. CASE i \in {10, 13}
                BY <4>1, <4>4 DEF Upgrade0001
            <4> QED
                BY <3>1, <4>2, <4>3, <4>4
        <3> QED
            BY <2>1, <2>4, <3>2 DEF IsAdding
    <2> QED
        BY <2>2, <2>3, <2>4 DEF IsInOrder
<1>2. CASE r \in 2..5
    <2>1. IsLater(Upgrades[r][i], r)
        BY <1>2, LaterUpgrades
    <2> QED
        BY <2>1 DEF IsLater, IsAdding
<1> QED
    BY <1>1, <1>2

\* What they do to the schema.
LEMMA AfterAdding ==
    ASSUME NEW s, IsSchema(s), NEW x, IsAdding(x)
    PROVE  /\ IsSchema(After(s, x))
           /\ \A t, n : << t, n >> \in After(s, x).objects <=>
                  << t, n >> \in s.objects \/ << t, n >> \in Names(x)
           /\ x.do \notin {"create table", "alter"} => After(s, x).types = s.types
           /\ x.do = "alter" =>
                  /\ After(s, x).types[x.column] = x.type
                  /\ \A c \in Columns \ {x.column} : After(s, x).types[c] = s.types[c]
<1>1. CASE x.do = "create table" /\ \A o \in x.names : \E t, n : o = << t, n >>
    <2>1. /\ After(s, x).objects = s.objects \cup x.names
          /\ After(s, x).types = [c \in Columns |-> After(s, x).types[c]]
          /\ After(s, x) = [objects |-> After(s, x).objects, types |-> After(s, x).types]
        BY <1>1 DEF After
    <2> QED
        BY <1>1, <2>1 DEF Names, IsSchema
<1>2. CASE x.do \in {"add", "add if missing"}
    <2>1. /\ After(s, x).objects = s.objects \cup {<< x.on, x.name >>}
          /\ After(s, x).types = s.types
          /\ After(s, x) = [objects |-> After(s, x).objects, types |-> After(s, x).types]
        BY <1>2 DEF After, IsSchema
    <2> QED
        BY <1>2, <2>1 DEF Names, IsSchema
<1>3. CASE x.do = "alter" /\ x.column \in Columns
    <2>1. /\ After(s, x).objects = s.objects
          /\ After(s, x).types = [c \in Columns |-> IF c = x.column THEN x.type ELSE s.types[c]]
          /\ After(s, x) = [objects |-> After(s, x).objects, types |-> After(s, x).types]
        BY <1>3 DEF After, IsSchema
    <2> QED
        BY <1>3, <2>1 DEF Names, IsSchema
<1> QED
    BY <1>1, <1>2, <1>3 DEF IsAdding

\* Only 0001 adds the worker index untested.
LEMMA AddsNotWorker ==
    ASSUME NEW r \in 2..5, NEW i \in 1..Len(Upgrades[r]), Upgrades[r][i].do = "add"
    PROVE  << Upgrades[r][i].on, Upgrades[r][i].name >> # Worker
<1> DEFINE t == Upgrades[r][i].on
           n == Upgrades[r][i].name
<1>1. << t, n >> \in Names(Upgrades[r][i])
    BY DEF Names
<1>2. CASE r = 2
    <2>1. Upgrades[r] = Upgrade0002 /\ i \in 1..3
        BY <1>2, Lengths
    <2> QED
        BY <1>1, <2>1, Names0002
<1>3. CASE r = 3
    <2>1. Upgrades[r][i] = Upgrade0003[1]
        BY <1>3, Lengths
    <2>2. Upgrade0003[1].do = "add if missing"
        BY DEF Upgrade0003, AddIfMissing
    <2> QED
        BY <2>1, <2>2
<1>4. CASE r = 4
    <2>1. Upgrades[r] = Upgrade0004 /\ i \in 1..4
        BY <1>4, Lengths
    <2> HIDE DEF t, n
    <2> QED
        BY <1>1, <2>1, New0004 DEF t, n
<1>5. CASE r = 5
    <2>1. Upgrades[r] = Upgrade0005 /\ i \in 1..11
        BY <1>5, Lengths
    <2> QED
        BY <1>1, <2>1, New0005
<1> QED
    BY <1>2, <1>3, <1>4, <1>5

\* On the way up, the next statement is accepted.
LEMMA UpAccepted ==
    ASSUME NEW s, NEW r \in 0..4, NEW k \in 0..(Len(Upgrades[r + 1]) - 1), IsGoingUp(s, r, k)
    PROVE  Accepted(s, Upgrades[r + 1][k + 1])
<1> DEFINE x == Upgrades[r + 1][k + 1]
<1>1. \A t : Exists(s, t) <=> InRevision(r, t, "table") \/ MadeBy(r + 1, k, t, "table")
    BY DEF IsGoingUp, Exists, Worker, WorkerIndex
<1>2. \A t, n : << t, n >> \in Names(x) /\ (<< t, n >> # Worker \/ r = 0) =>
          << t, n >> \notin s.objects
    <2> SUFFICES ASSUME NEW t, NEW n, << t, n >> \in Names(x), << t, n >> # Worker \/ r = 0
                 PROVE  << t, n >> \notin s.objects
        OBVIOUS
    <2>1. ~InRevision(r, t, n) /\ ~MadeBy(r + 1, k, t, n)
        BY MadeIsNew
    <2>2. CASE << t, n >> # Worker
        BY <2>1, <2>2 DEF IsGoingUp
    <2>3. CASE << t, n >> = Worker
        <3>1. r = 0 /\ t = "alerts" /\ n = WorkerIndex
            BY <2>3 DEF Worker
        <3>2. ~MadeBy(1, k, "alerts", WorkerIndex)
            BY <2>1, <3>1
        <3> QED
            BY <2>3, <3>1, <3>2 DEF IsGoingUp
    <2> QED
        BY <2>2, <2>3
<1>3. CASE r = 0
    <2>0. x = Upgrade0001[k + 1] /\ k + 1 \in 1..14 /\ k \in 0..13
        <3>1. Upgrades[r + 1] = Upgrade0001 /\ Len(Upgrade0001) = 14
            BY <1>3, Lengths
        <3> QED
            BY <3>1
    <2>1. IsInOrder(x, k + 1)
        BY <2>0, InOrder0001
    <2>2. \A t \in Tables : CreatedAt[t] < k + 1 => Exists(s, t)
        <3> SUFFICES ASSUME NEW t \in Tables, CreatedAt[t] < k + 1
                     PROVE  MadeBy(1, k, t, "table")
            BY <1>1, <1>3
        <3>1. PICK c \in 1..14 : c = CreatedAt[t]
            BY Created
        <3>2. << t, "table" >> \in Names(Upgrade0001[c])
            BY <3>1, Created
        <3>3. PICK m \in 0..13 : m = k
            BY <2>0
        <3>4. c \in 1..k
            BY <3>1, <3>3
        <3>5. Upgrades[1] = Upgrade0001
            BY Lengths
        <3> QED
            BY <3>2, <3>4, <3>5 DEF MadeBy
    <2>3. CASE x.do = "create table"
        <3>1. x.on \in Tables /\ CreatedAt[x.on] = k + 1
            BY <2>1, <2>3 DEF IsInOrder
        <3>2. << x.on, "table" >> \in Names(x)
            BY <2>0, <3>1, Created
        <3>3. ~Exists(s, x.on)
            BY <1>2, <1>3, <3>2 DEF Exists
        <3>4. \A u \in x.refs : Exists(s, u)
            BY <2>1, <2>2, <2>3 DEF IsInOrder
        <3> HIDE DEF x
        <3>5. Accepted(s, x)
            BY <2>3, <3>3, <3>4 DEF Accepted
        <3> QED
            BY <3>5 DEF x
    <2>4. CASE x.do = "add"
        <3>1. Exists(s, x.on)
            BY <2>1, <2>2, <2>4 DEF IsInOrder
        <3>2. << x.on, x.name >> \notin s.objects
            BY <1>2, <1>3, <2>4 DEF Names
        <3> HIDE DEF x
        <3>3. Accepted(s, x)
            BY <2>4, <3>1, <3>2 DEF Accepted
        <3> QED
            BY <3>3 DEF x
    <2> QED
        BY <2>1, <2>3, <2>4 DEF IsInOrder
<1>4. CASE r \in 1..4
    <2>0. r + 1 \in 2..5 /\ k + 1 \in 1..Len(Upgrades[r + 1])
        BY <1>4, Lengths
    <2>1. IsLater(x, r + 1)
        BY <2>0, LaterUpgrades
    <2>2. \A t \in Tables : Exists(s, t)
        BY <1>1, <1>4, TablesThere
    <2>3. CASE x.do = "add"
        <3>1. << x.on, x.name >> # Worker
            BY <2>0, <2>3, AddsNotWorker
        <3>2. << x.on, x.name >> \notin s.objects
            BY <1>2, <2>3, <3>1 DEF Names
        <3>3. Exists(s, x.on)
            BY <2>1, <2>2, <2>3 DEF IsLater
        <3> HIDE DEF x
        <3>4. Accepted(s, x)
            BY <2>3, <3>2, <3>3 DEF Accepted
        <3> QED
            BY <3>4 DEF x
    <2>4. CASE x.do = "add if missing"
        <3>1. Exists(s, x.on)
            BY <2>1, <2>2, <2>4, Creation DEF IsLater
        <3> HIDE DEF x
        <3>2. Accepted(s, x)
            BY <2>4, <3>1 DEF Accepted
        <3> QED
            BY <3>2 DEF x
    <2>5. CASE x.do = "alter"
        <3>1. x.type = TypeAtHead[x.column] /\ Exists(s, TableOf[x.column])
            BY <2>1, <2>2, <2>5, ColumnTypes DEF IsLater
        <3> HIDE DEF x
        <3>2. Accepted(s, x)
            BY <2>5, <3>1 DEF Accepted
        <3> QED
            BY <3>2 DEF x
    <2> QED
        BY <2>1, <2>3, <2>4, <2>5 DEF IsLater
<1> QED
    BY <1>3, <1>4

\* It takes the schema one statement on.
LEMMA UpStep ==
    ASSUME NEW s, NEW r \in 0..4, NEW k \in 0..(Len(Upgrades[r + 1]) - 1), IsGoingUp(s, r, k)
    PROVE  IsGoingUp(After(s, Upgrades[r + 1][k + 1]), r, k + 1)
<1> DEFINE x == Upgrades[r + 1][k + 1]
           a == After(s, x)
<1>0. r + 1 \in 1..5 /\ k + 1 \in 1..Len(Upgrades[r + 1])
    BY Lengths
<1>1. IsAdding(x)
    BY <1>0, UpgradesAdd
<1>2. IsSchema(s)
    BY DEF IsGoingUp
<1>3. /\ IsSchema(a)
      /\ \A t, n : << t, n >> \in a.objects <=> << t, n >> \in s.objects \/ << t, n >> \in Names(x)
      /\ x.do \notin {"create table", "alter"} => a.types = s.types
      /\ x.do = "alter" =>
             /\ a.types[x.column] = x.type
             /\ \A c \in Columns \ {x.column} : a.types[c] = s.types[c]
    <2> HIDE DEF x
    <2>1. IsAdding(x) /\ IsSchema(s)
        BY <1>1, <1>2
    <2> QED
        BY <2>1, AfterAdding
<1>4. ASSUME NEW t, NEW n
      PROVE  MadeBy(r + 1, k + 1, t, n) <=> MadeBy(r + 1, k, t, n) \/ << t, n >> \in Names(x)
    BY NextMadeBy
<1> HIDE DEF a
<1>5. ASSUME NEW t, NEW n, << t, n >> # Worker
      PROVE  << t, n >> \in a.objects <=> InRevision(r, t, n) \/ MadeBy(r + 1, k + 1, t, n)
    <2>1. << t, n >> \in s.objects <=> InRevision(r, t, n) \/ MadeBy(r + 1, k, t, n)
        BY <1>5 DEF IsGoingUp
    <2>2. << t, n >> \in a.objects <=> << t, n >> \in s.objects \/ << t, n >> \in Names(x)
        BY <1>3
    <2> QED
        BY <1>4, <2>1, <2>2
<1>6. r = 0 => (Worker \in a.objects <=> MadeBy(1, k + 1, "alerts", WorkerIndex))
    <2> SUFFICES ASSUME r = 0
                 PROVE  Worker \in a.objects <=> MadeBy(1, k + 1, "alerts", WorkerIndex)
        OBVIOUS
    <2>1. Worker \in s.objects <=> MadeBy(r + 1, k, "alerts", WorkerIndex)
        BY DEF IsGoingUp
    <2>2. Worker \in a.objects <=> Worker \in s.objects \/ Worker \in Names(x)
        BY <1>3 DEF Worker
    <2>3. MadeBy(r + 1, k + 1, "alerts", WorkerIndex) <=>
              MadeBy(r + 1, k, "alerts", WorkerIndex) \/ Worker \in Names(x)
        BY <1>4 DEF Worker
    <2> QED
        BY <2>1, <2>2, <2>3
<1>7. r >= 3 \/ (r = 2 /\ k + 1 = 1) => Worker \in a.objects
    <2>1. CASE r >= 3
        BY <1>3, <2>1 DEF IsGoingUp, Worker
    <2>2. ASSUME r = 2, k = 0
          PROVE  Worker \in a.objects
        <3>1. x = Upgrade0003[1]
            BY <2>2, Lengths
        <3>2. Worker \in Names(x)
            BY <3>1, Names0003 DEF Worker
        <3> QED
            BY <1>3, <3>2 DEF Worker
    <2> QED
        BY <2>1, <2>2
<1>8. r \in 1..4 => IsLater(x, r + 1)
    BY <1>0, LaterUpgrades
<1>9. r = 0 => x.do \in {"create table", "add"}
    <2> SUFFICES ASSUME r = 0
                 PROVE  x.do \in {"create table", "add"}
        OBVIOUS
    <2>1. Upgrades[r + 1] = Upgrade0001 /\ Len(Upgrade0001) = 14
        BY Lengths
    <2>2. IsInOrder(x, k + 1)
        BY <2>1, InOrder0001
    <2> QED
        BY <2>2 DEF IsInOrder
<1>10. TypesSince(a.types, r)
    <2>1. CASE r \in {0, 1}
        BY <2>1 DEF TypesSince
    <2>2. CASE r \in 2..4
        <3>1. \A c \in Integers0002 : s.types[c] = "INTEGER"
            BY <2>2 DEF IsGoingUp, TypesSince
        <3>2. ASSUME NEW c \in Integers0002
              PROVE  a.types[c] = s.types[c]
            <4>1. IsLater(x, r + 1)
                BY <1>8, <2>2
            <4>2. c \in Columns /\ c # "message"
                BY ColumnTypes
            <4>3. CASE x.do = "alter"
                <5>1. x.column = "message"
                    BY <2>2, <4>1, <4>3 DEF IsLater
                <5> QED
                    BY <1>3, <4>2, <4>3, <5>1
            <4>4. CASE x.do # "alter"
                <5>1. a.types = s.types
                    BY <1>3, <4>1, <4>4 DEF IsLater
                <5> QED
                    BY <5>1
            <4> QED
                BY <4>3, <4>4
        <3> QED
            BY <2>2, <3>1, <3>2 DEF TypesSince
    <2> QED
        BY <2>1, <2>2
<1>11. ASSUME NEW i \in 1..(k + 1), Upgrades[r + 1][i].do = "alter"
       PROVE  a.types[Upgrades[r + 1][i].column] = Upgrades[r + 1][i].type
    <2>1. CASE i = k + 1
        BY <1>3, <1>11, <2>1
    <2>2. CASE i \in 1..k
        <3> DEFINE y == Upgrades[r + 1][i]
        <3>1. i \in 1..Len(Upgrades[r + 1])
            BY <1>0, <2>2
        <3>2. y.column \in Columns /\ s.types[y.column] = y.type /\ r # 0
            <4>1. r # 0
                <5> SUFFICES ASSUME r = 0
                             PROVE  FALSE
                    OBVIOUS
                <5>1. Upgrades[r + 1] = Upgrade0001 /\ Len(Upgrade0001) = 14
                    BY Lengths
                <5>2. IsInOrder(Upgrade0001[i], i)
                    BY <3>1, <5>1, InOrder0001
                <5> QED
                    BY <1>11, <5>1, <5>2 DEF IsInOrder
            <4>2. IsLater(y, r + 1)
                BY <3>1, <4>1, LaterUpgrades
            <4> QED
                BY <1>11, <2>2, <4>1, <4>2 DEF IsLater, IsGoingUp
        <3>3. x.do = "alter" => x.column # y.column
            <4> SUFFICES ASSUME x.do = "alter", x.column = y.column
                         PROVE  FALSE
                OBVIOUS
            <4>1. PICK q \in 1..5 : q = r + 1
                OBVIOUS
            <4>2. PICK m \in 1..Len(Upgrades[q]) : m = k + 1 /\ m # i
                BY <1>0, <2>2, <4>1
            <4>3. Upgrades[q][m].do = "alter" /\ Upgrades[q][i].do = "alter" /\ i \in 1..Len(Upgrades[q])
                BY <1>11, <3>1, <4>1, <4>2
            <4>4. Upgrades[q][m].column = Upgrades[q][i].column
                BY <4>1, <4>2
            <4> QED
                BY <4>2, <4>3, <4>4, AlteredOnce
        <3>4. a.types[y.column] = s.types[y.column]
            <4>1. x.do # "create table"
                <5>1. IsLater(x, r + 1)
                    BY <1>8, <3>2
                <5> QED
                    BY <5>1 DEF IsLater
            <4> QED
                BY <1>3, <3>2, <3>3, <4>1
        <3> QED
            BY <3>2, <3>4
    <2> QED
        BY <2>1, <2>2
<1> QED
    BY <1>3, <1>5, <1>6, <1>7, <1>10, <1>11 DEF IsGoingUp, a

\* The whole script leads to the next revision.
LEMMA UpDone ==
    ASSUME NEW s, NEW r \in 0..4, IsGoingUp(s, r, Len(Upgrades[r + 1]))
    PROVE  IsAt(s, r + 1)
<1> DEFINE L == Len(Upgrades[r + 1])
<1>1. ASSUME NEW t, NEW n
      PROVE  InRevision(r + 1, t, n) <=> InRevision(r, t, n) \/ MadeBy(r + 1, L, t, n)
    BY NextInRevision DEF Made
<1>2. r + 1 >= 3 => Worker \in s.objects
    <2>1. r = 2 => L = 1
        BY Lengths
    <2> QED
        BY <2>1 DEF IsGoingUp
<1>3. TypesSince(s.types, r + 1)
    <2>1. CASE r = 0
        BY <2>1 DEF TypesSince
    <2>2. CASE r = 1
        <3>1. Upgrades[r + 1] = Upgrade0002 /\ L = 3
            BY <2>2, Lengths
        <3>2. \A i \in 1..3 : Upgrade0002[i].do = "alter" =>
                  s.types[Upgrade0002[i].column] = Upgrade0002[i].type
            BY <3>1 DEF IsGoingUp
        <3>3. /\ Upgrade0002[1] = Alter("metrics", "INTEGER")
              /\ Upgrade0002[2] = Alter("threshold_value", "INTEGER")
              /\ Upgrade0002[3] = Alter("snapshot_values", "INTEGER")
            BY DEF Upgrade0002
        <3>4. \A c \in Integers0002 : s.types[c] = "INTEGER"
            BY <3>2, <3>3 DEF Alter, Integers0002
        <3> QED
            BY <2>2, <3>4 DEF TypesSince
    <2>3. CASE r \in {2, 3}
        BY <2>3 DEF TypesSince, IsGoingUp
    <2>4. CASE r = 4
        <3>1. Upgrades[r + 1] = Upgrade0005 /\ L = 11
            BY <2>4, Lengths
        <3>2. \A i \in 1..11 : Upgrade0005[i].do = "alter" =>
                  s.types[Upgrade0005[i].column] = Upgrade0005[i].type
            BY <3>1 DEF IsGoingUp
        <3>3. s.types["message"] = "TEXT"
            BY <3>2, Statements0005 DEF Alter
        <3> QED
            BY <2>4, <3>3 DEF TypesSince, IsGoingUp
    <2> QED
        BY <2>1, <2>2, <2>3, <2>4
<1> QED
    BY <1>1, <1>2, <1>3 DEF IsGoingUp, IsAt

-----------------------------------------------------------------------------
(* Downgrades.                                                             *)

\* Statement x of the downgrade from revision r takes back statement y of the
\* upgrade to it.
TakesBack(x, y, r) ==
    \/ /\ x.do = "drop" /\ y.do \in {"add", "add if missing"}
       /\ x.on = y.on /\ x.name = y.name
    \/ /\ x.do = "drop table" /\ y.do = "create table" /\ r = 1
       /\ x.on = y.on
    \/ /\ x.do = "alter" /\ y.do = "alter" /\ r \in {2, 5}
       /\ x.column \in Columns /\ (r = 5 => x.column = "message")

\* A downgrade takes its upgrade back from the end.
LEMMA Mirror ==
    ASSUME NEW r \in 1..5
    PROVE  /\ Len(Downgrades[r]) = Len(Upgrades[r]) /\ Len(Upgrades[r]) \in Nat
           /\ \A i \in 1..Len(Upgrades[r]) :
                  TakesBack(Downgrades[r][i], Upgrades[r][Len(Upgrades[r]) + 1 - i], r)
<1>0. Len(Downgrades[r]) = Len(Upgrades[r]) /\ Len(Upgrades[r]) \in Nat
    BY Lengths
<1> SUFFICES ASSUME NEW i \in 1..Len(Upgrades[r])
             PROVE  TakesBack(Downgrades[r][i], Upgrades[r][Len(Upgrades[r]) + 1 - i], r)
    BY <1>0
<1>1. CASE r = 1
    <2>1. /\ Downgrades[r] = Downgrade0001 /\ Upgrades[r] = Upgrade0001
          /\ Len(Upgrade0001) = 14
        BY <1>1, Lengths
    <2>2. TakesBack(Downgrade0001[1], Upgrade0001[14], 1)
        BY DEF Downgrade0001, Upgrade0001, Drop, Add, TakesBack
    <2>3. TakesBack(Downgrade0001[2], Upgrade0001[13], 1)
        BY DEF Downgrade0001, Upgrade0001, DropTable, CreateTable, TakesBack
    <2>4. TakesBack(Downgrade0001[3], Upgrade0001[12], 1)
        BY DEF Downgrade0001, Upgrade0001, Drop, Add, TakesBack
    <2>5. TakesBack(Downgrade0001[4], Upgrade0001[11], 1)
        BY DEF Downgrade0001, Upgrade0001, Drop, Add, TakesBack
    <2>6. TakesBack(Downgrade0001[5], Upgrade0001[10], 1)
        BY DEF Downgrade0001, Upgrade0001, DropTable, CreateTable, TakesBack
    <2>7. TakesBack(Downgrade0001[6], Upgrade0001[9], 1)
        BY DEF Downgrade0001, Upgrade0001, Drop, Add, TakesBack
    <2>8. TakesBack(Downgrade0001[7], Upgrade0001[8], 1)
        BY DEF Downgrade0001, Upgrade0001, Drop, Add, TakesBack
    <2>9. TakesBack(Downgrade0001[8], Upgrade0001[7], 1)
        BY DEF Downgrade0001, Upgrade0001, Drop, Add, TakesBack
    <2>10. TakesBack(Downgrade0001[9], Upgrade0001[6], 1)
        BY DEF Downgrade0001, Upgrade0001, DropTable, CreateTable, TakesBack
    <2>11. TakesBack(Downgrade0001[10], Upgrade0001[5], 1)
        BY DEF Downgrade0001, Upgrade0001, Drop, Add, TakesBack
    <2>12. TakesBack(Downgrade0001[11], Upgrade0001[4], 1)
        BY DEF Downgrade0001, Upgrade0001, DropTable, CreateTable, TakesBack
    <2>13. TakesBack(Downgrade0001[12], Upgrade0001[3], 1)
        BY DEF Downgrade0001, Upgrade0001, Drop, Add, TakesBack
    <2>14. TakesBack(Downgrade0001[13], Upgrade0001[2], 1)
        BY DEF Downgrade0001, Upgrade0001, DropTable, CreateTable, TakesBack
    <2>15. TakesBack(Downgrade0001[14], Upgrade0001[1], 1)
        BY DEF Downgrade0001, Upgrade0001, DropTable, CreateTable, TakesBack
    <2>16. \A j \in 1..14 : TakesBack(Downgrade0001[j], Upgrade0001[15 - j], 1)
        <3> SUFFICES ASSUME NEW j \in 1..14
                     PROVE  TakesBack(Downgrade0001[j], Upgrade0001[15 - j], 1)
            OBVIOUS
        <3>1. CASE j \in 1..7
            BY <3>1, <2>2, <2>3, <2>4, <2>5, <2>6, <2>7, <2>8
        <3>2. CASE j \in 8..14
            BY <3>2, <2>9, <2>10, <2>11, <2>12, <2>13, <2>14, <2>15
        <3> QED
            BY <3>1, <3>2
    <2> QED
        BY <1>1, <2>1, <2>16
<1>2. CASE r = 2
    <2>1. /\ Downgrades[r] = Downgrade0002 /\ Upgrades[r] = Upgrade0002
          /\ Len(Upgrade0002) = 3
        BY <1>2, Lengths
    <2>2. \A j \in 1..3 : Downgrade0002[j].do = "alter" /\ Downgrade0002[j].column \in Integers0002
        BY DEF Downgrade0002, Alter, Integers0002
    <2>3. \A j \in 1..3 : Upgrade0002[j].do = "alter"
        BY DEF Upgrade0002, Alter
    <2>4. /\ Downgrade0002[i].do = "alter" /\ Downgrade0002[i].column \in Columns
          /\ Upgrade0002[4 - i].do = "alter"
        BY <2>1, <2>2, <2>3, ColumnTypes
    <2> QED
        BY <1>2, <2>1, <2>4 DEF TakesBack
<1>3. CASE r = 3
    <2>1. /\ Downgrades[r][i] = Downgrade0003[1]
          /\ Upgrades[r][Len(Upgrades[r]) + 1 - i] = Upgrade0003[1]
        BY <1>3, Lengths
    <2>2. TakesBack(Downgrade0003[1], Upgrade0003[1], 3)
        BY DEF Downgrade0003, Upgrade0003, Drop, AddIfMissing, TakesBack
    <2> QED
        BY <1>3, <2>1, <2>2
<1>4. CASE r = 4
    <2>1. /\ Downgrades[r] = Downgrade0004 /\ Upgrades[r] = Upgrade0004
          /\ Len(Upgrade0004) = 4
        BY <1>4, Lengths
    <2>2. \A j \in 1..4 : /\ Downgrade0004[j].do = "drop" /\ Upgrade0004[5 - j].do = "add"
                          /\ Downgrade0004[j].on = Upgrade0004[5 - j].on
                          /\ Downgrade0004[j].name = Upgrade0004[5 - j].name
        BY DEF Downgrade0004, Upgrade0004, Drop, Add
    <2>3. TakesBack(Downgrade0004[i], Upgrade0004[5 - i], 4)
        BY <2>1, <2>2 DEF TakesBack
    <2> QED
        BY <1>4, <2>1, <2>3
<1>5. CASE r = 5
    <2>1. /\ Downgrades[r] = Downgrade0005 /\ Upgrades[r] = Upgrade0005
          /\ Len(Upgrade0005) = 11
        BY <1>5, Lengths
    <2> SUFFICES ASSUME NEW j \in 1..11
                 PROVE  TakesBack(Downgrade0005[j], Upgrade0005[12 - j], 5)
        BY <1>5, <2>1
    <2>2. CASE j \in 1..7
        <3>1. /\ Downgrade0005[j] = Drop("notification_deliveries", DeliveryChecks[8 - j])
              /\ Upgrade0005[12 - j] = Add("notification_deliveries", DeliveryChecks[(12 - j) - 4])
              /\ (12 - j) - 4 = 8 - j
            BY <2>2, Statements0005
        <3> QED
            BY <3>1 DEF Drop, Add, TakesBack
    <2>3. CASE j \in 8..10
        <3>1. /\ TakesBack(Downgrade0005[8], Upgrade0005[4], 5)
              /\ TakesBack(Downgrade0005[9], Upgrade0005[3], 5)
              /\ TakesBack(Downgrade0005[10], Upgrade0005[2], 5)
            BY Statements0005 DEF Drop, Add, TakesBack
        <3> QED
            BY <2>3, <3>1
    <2>4. CASE j = 11
        BY <2>4, Statements0005, ColumnTypes DEF Alter, TakesBack
    <2> QED
        BY <2>2, <2>3, <2>4
<1> QED
    BY <1>1, <1>2, <1>3, <1>4, <1>5

\* What one statement makes, no other of the same upgrade makes.
LEMMA OnceIn ==
    ASSUME NEW r \in 1..5, NEW i \in 1..Len(Upgrades[r]), NEW j \in 1..Len(Upgrades[r]),
           NEW t, NEW n, << t, n >> \in Names(Upgrades[r][i]), << t, n >> \in Names(Upgrades[r][j])
    PROVE  i = j
<1>1. CASE r = 1
    <2>1. Upgrades[r] = Upgrade0001 /\ Len(Upgrade0001) = 14
        BY <1>1, Lengths
    <2> QED
        BY <2>1, Once0001
<1>2. CASE r = 2
    <2>1. Upgrades[r] = Upgrade0002 /\ Len(Upgrade0002) = 3
        BY <1>2, Lengths
    <2> QED
        BY <2>1, Names0002
<1>3. CASE r = 3
    BY <1>3, Lengths
<1>4. CASE r = 4
    <2>1. Upgrades[r] = Upgrade0004 /\ Len(Upgrade0004) = 4
        BY <1>4, Lengths
    <2> QED
        BY <2>1, Names0004
<1>5. CASE r = 5
    <2>1. Upgrades[r] = Upgrade0005 /\ Len(Upgrade0005) = 11
        BY <1>5, Lengths
    <2> QED
        BY <2>1, Once0005
<1> QED
    BY <1>1, <1>2, <1>3, <1>4, <1>5

\* A table is created by its own statement.
LEMMA Creators ==
    ASSUME NEW u \in Tables
    PROVE  Upgrade0001[CreatedAt[u]].do = "create table" /\ Upgrade0001[CreatedAt[u]].on = u
<1>1. /\ Upgrade0001[1].do = "create table" /\ Upgrade0001[1].on = "users"
      /\ Upgrade0001[2].do = "create table" /\ Upgrade0001[2].on = "fields"
      /\ Upgrade0001[4].do = "create table" /\ Upgrade0001[4].on = "weather_forecasts"
    BY DEF Upgrade0001, CreateTable
<1>2. /\ Upgrade0001[6].do = "create table" /\ Upgrade0001[6].on = "alerts"
      /\ Upgrade0001[10].do = "create table" /\ Upgrade0001[10].on = "alert_triggers"
      /\ Upgrade0001[13].do = "create table" /\ Upgrade0001[13].on = "notification_deliveries"
    BY DEF Upgrade0001, CreateTable
<1> QED
    BY <1>1, <1>2, Creation

\* Foreign keys point at tables created before.
LEMMA Referring ==
    ASSUME NEW t \in Tables, NEW u \in ReferencesTo(t)
    PROVE  u \in Tables /\ CreatedAt[t] < CreatedAt[u]
<1>1. CASE t = "users"
    <2>1. u = "fields"
        BY <1>1 DEF ReferencesTo
    <2> QED
        BY <1>1, <2>1, Creation
<1>2. CASE t = "fields"
    <2>1. u = "weather_forecasts" \/ u = "alerts"
        BY <1>2 DEF ReferencesTo
    <2> QED
        BY <1>2, <2>1, Creation
<1>3. CASE t \in {"weather_forecasts", "alerts"}
    <2>1. u = "alert_triggers"
        BY <1>3 DEF ReferencesTo
    <2> QED
        BY <1>3, <2>1, Creation
<1>4. CASE t = "alert_triggers"
    <2>1. u = "notification_deliveries"
        BY <1>4 DEF ReferencesTo
    <2> QED
        BY <1>4, <2>1, Creation
<1>5. CASE t = "notification_deliveries"
    BY <1>5 DEF ReferencesTo
<1> QED
    BY <1>1, <1>2, <1>3, <1>4, <1>5, Creation

\* A table outlives what is added to it: a statement of the downgrade drops what the
\* mirrored statement of the upgrade has made, or, in 0001, the whole table.
LEMMA RemovesMade ==
    ASSUME NEW r \in 1..5, NEW i \in 1..Len(Upgrades[r]), NEW t, NEW n,
           Removes(Downgrades[r][i], t, n)
    PROVE  \/ << t, n >> \in Names(Upgrades[r][Len(Upgrades[r]) + 1 - i])
           \/ r = 1 /\ t \in Tables /\ CreatedAt[t] = 15 - i
<1> DEFINE x == Downgrades[r][i]
           y == Upgrades[r][Len(Upgrades[r]) + 1 - i]
<1>1. TakesBack(x, y, r)
    BY Mirror
<1>2. CASE x.do = "drop"
    <2>1. y.do \in {"add", "add if missing"} /\ t = y.on /\ n = y.name
        BY <1>1, <1>2 DEF TakesBack, Removes
    <2> QED
        BY <2>1 DEF Names
<1>3. CASE x.do = "drop table"
    <2>1. y.do = "create table" /\ t = y.on /\ r = 1
        BY <1>1, <1>3 DEF TakesBack, Removes
    <2>2. Upgrades[r] = Upgrade0001 /\ Len(Upgrade0001) = 14
        BY <2>1, Lengths
    <2>3. IsInOrder(Upgrade0001[15 - i], 15 - i) /\ y = Upgrade0001[15 - i]
        BY <2>2, InOrder0001
    <2> QED
        BY <2>1, <2>3 DEF IsInOrder
<1> QED
    BY <1>2, <1>3 DEF Removes

\* The table of a statement of 0001's downgrade is still there when it runs.
LEMMA StillThere ==
    ASSUME NEW i \in 1..14, NEW k \in 0..(i - 1), NEW t \in Tables, CreatedAt[t] <= 15 - i
    PROVE  ~RemovedBy(1, k, t, "table")
<1> SUFFICES ASSUME NEW j \in 1..k, Removes(Downgrades[1][j], t, "table")
             PROVE  FALSE
    BY DEF RemovedBy
<1>1. /\ Upgrades[1] = Upgrade0001 /\ Len(Upgrades[1]) = 14
      /\ j \in 1..14 /\ j < i /\ 15 - j \in 1..14
    BY Lengths
<1>2. \/ << t, "table" >> \in Names(Upgrade0001[15 - j])
      \/ CreatedAt[t] = 15 - j
    <2>1. j \in 1..Len(Upgrades[1]) /\ Len(Upgrades[1]) + 1 - j = 15 - j
        BY <1>1
    <2>2. \/ << t, "table" >> \in Names(Upgrades[1][Len(Upgrades[1]) + 1 - j])
          \/ CreatedAt[t] = 15 - j
        BY <2>1, RemovesMade
    <2> QED
        BY <1>1, <2>1, <2>2
<1>3. CreatedAt[t] = 15 - j
    BY <1>1, <1>2, Created
<1> QED
    BY <1>1, <1>3, Created

\* What statements of the downgrade do to the schema.
IsDropping(x) == x.do \in {"drop", "drop table"} \/ (x.do = "alter" /\ x.column \in Columns)

\* What such a statement leaves of a schema.
LEMMA AfterDropping ==
    ASSUME NEW s, IsSchema(s), NEW x, IsDropping(x)
    PROVE  /\ IsSchema(After(s, x))
           /\ \A t, n : << t, n >> \in After(s, x).objects <=>
                  << t, n >> \in s.objects /\ ~Removes(x, t, n)
           /\ x.do # "alter" => After(s, x).types = s.types
           /\ x.do = "alter" =>
                  \A c \in Columns \ {x.column} : After(s, x).types[c] = s.types[c]
<1>1. CASE x.do = "drop"
    <2>1. /\ After(s, x).objects = s.objects \ {<< x.on, x.name >>}
          /\ After(s, x).types = s.types
          /\ After(s, x) = [objects |-> After(s, x).objects, types |-> After(s, x).types]
        BY <1>1 DEF After, IsSchema
    <2> QED
        BY <1>1, <2>1 DEF Removes, IsSchema
<1>2. CASE x.do = "drop table"
    <2>1. /\ After(s, x).objects = {o \in s.objects : o[1] # x.on}
          /\ After(s, x).types = s.types
          /\ After(s, x) = [objects |-> After(s, x).objects, types |-> After(s, x).types]
        BY <1>2 DEF After, IsSchema
    <2>2. ASSUME NEW t, NEW n
          PROVE  << t, n >> \in After(s, x).objects <=> << t, n >> \in s.objects /\ t # x.on
        BY <2>1
    <2> QED
        BY <1>2, <2>1, <2>2 DEF Removes, IsSchema
<1>3. CASE x.do = "alter" /\ x.column \in Columns
    <2>1. /\ After(s, x).objects = s.objects
          /\ After(s, x).types = [c \in Columns |-> IF c = x.column THEN x.type ELSE s.types[c]]
          /\ After(s, x) = [objects |-> After(s, x).objects, types |-> After(s, x).types]
        BY <1>3 DEF After, IsSchema
    <2> QED
        BY <1>3, <2>1 DEF Removes, IsSchema
<1> QED
    BY <1>1, <1>2, <1>3 DEF IsDropping

\* In 0001 the ninth statement makes the worker index.
LEMMA WorkerMade ==
    ASSUME NEW p \in 1..14, Worker \in Names(Upgrade0001[p])
    PROVE  p = 9
<1>1. PICK t, n : t = "alerts" /\ n = WorkerIndex
    OBVIOUS
<1>2. << t, n >> \in Names(Upgrade0001[p])
    BY <1>1 DEF Worker
<1>3. PICK q \in 1..14 : q = 9
    OBVIOUS
<1>4. << t, n >> \in Names(Upgrade0001[q])
    BY <1>1, <1>3, Names0001
<1>5. p = q
    BY <1>2, <1>4, Once0001
<1> QED
    BY <1>3, <1>5

\* On the way down, a statement is refused for one of the two obstacles only.
LEMMA DownAccepted ==
    ASSUME NEW s, NEW r \in 1..5, NEW k \in 0..(Len(Downgrades[r]) - 1), IsGoingDown(s, r, k),
           ~Accepted(s, Downgrades[r][k + 1])
    PROVE  \/ Downgrades[r][k + 1].do = "alter" /\ Downgrades[r][k + 1].column \in wide
           \/ r = 1 /\ Downgrades[r][k + 1] = Drop("alerts", WorkerIndex)
<1> DEFINE L == Len(Upgrades[r])
           x == Downgrades[r][k + 1]
           y == Upgrades[r][L - k]
<1>1. /\ L \in Nat /\ k + 1 \in 1..L /\ L - k \in 1..L /\ L + 1 - (k + 1) = L - k
      /\ TakesBack(x, y, r)
    <2>1. /\ L \in Nat /\ k + 1 \in 1..L /\ L - k \in 1..L /\ L + 1 - (k + 1) = L - k
        <3>1. PICK M \in Nat : M = L /\ M = Len(Downgrades[r])
            BY Mirror
        <3>2. k \in 0..(M - 1)
            BY <3>1
        <3>3. M \in Nat /\ k + 1 \in 1..M /\ M - k \in 1..M /\ M + 1 - (k + 1) = M - k
            BY <3>2
        <3> QED
            BY <3>1, <3>3
    <2>2. TakesBack(x, Upgrades[r][L + 1 - (k + 1)], r)
        BY <2>1, Mirror
    <2> QED
        BY <2>1, <2>2
<1>2. r = 1 => /\ Upgrades[r] = Upgrade0001 /\ L = 14 /\ y = Upgrade0001[14 - k]
               /\ IsInOrder(y, 14 - k)
    <2> SUFFICES ASSUME r = 1
                 PROVE  /\ Upgrades[r] = Upgrade0001 /\ L = 14 /\ y = Upgrade0001[14 - k]
                        /\ IsInOrder(y, 14 - k)
        OBVIOUS
    <2>1. Upgrades[r] = Upgrade0001 /\ L = 14
        BY Lengths
    <2> QED
        BY <1>1, <2>1, InOrder0001
<1>3. ASSUME NEW t \in Tables, ~RemovedBy(r, k, t, "table")
      PROVE  Exists(s, t)
    <2>1. << t, "table" >> # Worker
        BY DEF Worker, WorkerIndex
    <2> QED
        BY <1>3, <2>1, TablesThere DEF IsGoingDown, Exists
<1>4. CASE x.do = "drop"
    <2>1. y.do \in {"add", "add if missing"} /\ x.on = y.on /\ x.name = y.name
        BY <1>1, <1>4 DEF TakesBack
    <2>2. << x.on, x.name >> \in Names(y)
        BY <2>1 DEF Names
    <2>3. InRevision(r, x.on, x.name)
        <3>1. Made(r, x.on, x.name)
            BY <1>1, <2>2 DEF Made, MadeBy
        <3> QED
            BY <3>1 DEF InRevision
    <2>4. ~RemovedBy(r, k, x.on, x.name)
        <3> SUFFICES ASSUME NEW i \in 1..k, Removes(Downgrades[r][i], x.on, x.name)
                     PROVE  FALSE
            BY DEF RemovedBy
        <3>1. i \in 1..L /\ L + 1 - i \in 1..L /\ L + 1 - i > L - k
            BY <1>1
        <3>2. \/ << x.on, x.name >> \in Names(Upgrades[r][L + 1 - i])
              \/ r = 1 /\ x.on \in Tables /\ CreatedAt[x.on] = 15 - i
            BY <3>1, RemovesMade
        <3>3. CASE << x.on, x.name >> \in Names(Upgrades[r][L + 1 - i])
            <4>1. L + 1 - i = L - k
                BY <1>1, <2>2, <3>1, <3>3, OnceIn
            <4> QED
                BY <3>1, <4>1
        <3>4. CASE r = 1 /\ x.on \in Tables /\ CreatedAt[x.on] = 15 - i
            <4>1. CreatedAt[x.on] < 14 - k
                BY <1>2, <2>1, <3>4 DEF IsInOrder
            <4> QED
                BY <1>2, <3>1, <3>4, <4>1
        <3> QED
            BY <3>2, <3>3, <3>4
    <2>5. << x.on, x.name >> \notin s.objects
        <3> HIDE DEF x
        <3> QED
            BY <1>4 DEF Accepted, x
    <2>6. << x.on, x.name >> = Worker /\ r \in {1, 2}
        <3>1. << x.on, x.name >> = Worker
            BY <2>3, <2>4, <2>5 DEF IsGoingDown
        <3>2. x.on = "alerts" /\ x.name = WorkerIndex
            BY <3>1 DEF Worker
        <3>3. ~(r >= 3)
            BY <2>4, <2>5, <3>1, <3>2 DEF IsGoingDown
        <3> QED
            BY <3>1, <3>3
    <2>7. r # 2
        <3> SUFFICES ASSUME r = 2
                     PROVE  FALSE
            OBVIOUS
        <3>1. Upgrades[r] = Upgrade0002 /\ L = 3
            BY Lengths
        <3> QED
            BY <1>1, <2>2, <3>1, Names0002
    <2>8. r = 1 /\ << "alerts", WorkerIndex >> \in Names(Upgrade0001[14 - k]) /\ 14 - k \in 1..14
        BY <1>1, <1>2, <2>2, <2>6, <2>7 DEF Worker
    <2>9. 14 - k = 9
        <3>2. PICK p \in 1..14 : p = 14 - k
            BY <2>8
        <3>3. Worker \in Names(Upgrade0001[p])
            BY <2>8, <3>2 DEF Worker
        <3>4. p = 9
            BY <3>3, WorkerMade
        <3> QED
            BY <3>2, <3>4
    <2>10. x = Downgrade0001[6]
        BY <2>8, <2>9, Lengths
    <2> QED
        BY <2>8, <2>10 DEF Downgrade0001
<1>5. CASE x.do = "drop table"
    <2>1. y.do = "create table" /\ x.on = y.on /\ r = 1
        BY <1>1, <1>5 DEF TakesBack
    <2>2. x.on \in Tables /\ CreatedAt[x.on] = 14 - k
        BY <1>2, <2>1 DEF IsInOrder
    <2>3. k \in 0..13
        <3>1. L = 14 /\ Len(Downgrades[r]) = L
            BY <1>2, <2>1, Mirror
        <3> QED
            BY <3>1
    <2>4. Exists(s, x.on)
        <3>1. PICK p \in 1..14 : p = k + 1
            BY <2>3
        <3>2. CreatedAt[x.on] <= 15 - p /\ k \in 0..(p - 1)
            BY <2>2, <2>3, <3>1
        <3>3. ~RemovedBy(1, k, x.on, "table")
            BY <2>2, <3>2, StillThere
        <3> QED
            BY <1>3, <2>1, <2>2, <3>3
    <2>5. ASSUME NEW u \in ReferencesTo(x.on)
          PROVE  ~Exists(s, u)
        <3>1. u \in Tables /\ 14 - k < CreatedAt[u]
            BY <2>2, Referring
        <3>2. CreatedAt[u] \in 1..14
            BY <3>1, Created
        <3> DEFINE i == 15 - CreatedAt[u]
        <3>3. i \in 1..k /\ i \in 1..14 /\ 15 - i = CreatedAt[u]
            <4>1. PICK c \in 1..14 : c = CreatedAt[u]
                BY <3>2
            <4>2. 14 - k < c
                BY <3>1, <4>1
            <4>3. 15 - c \in 1..k /\ 15 - c \in 1..14 /\ 15 - (15 - c) = c
                BY <2>3, <4>2
            <4> QED
                BY <4>1, <4>3
        <3> HIDE DEF i
        <3>4. /\ Upgrades[1] = Upgrade0001 /\ Len(Upgrades[1]) = 14
            BY Lengths
        <3>5. TakesBack(Downgrades[1][i], Upgrade0001[15 - i], 1)
            <4>1. i \in 1..Len(Upgrades[1]) /\ Len(Upgrades[1]) + 1 - i = 15 - i
                BY <3>3, <3>4
            <4>2. TakesBack(Downgrades[1][i], Upgrades[1][Len(Upgrades[1]) + 1 - i], 1)
                BY <4>1, Mirror
            <4> QED
                BY <3>4, <4>1, <4>2
        <3>6. Upgrade0001[15 - i].do = "create table" /\ Upgrade0001[15 - i].on = u
            BY <3>1, <3>3, Creators
        <3>7. Removes(Downgrades[1][i], u, "table")
            BY <3>5, <3>6 DEF TakesBack, Removes
        <3>8. RemovedBy(r, k, u, "table")
            BY <2>1, <3>3, <3>7 DEF RemovedBy
        <3>9. << u, "table" >> # Worker
            BY DEF Worker, WorkerIndex
        <3> QED
            BY <3>8, <3>9 DEF IsGoingDown, Exists
    <2> HIDE DEF x
    <2>6. Accepted(s, x)
        BY <1>5, <2>4, <2>5 DEF Accepted
    <2> QED
        BY <2>6 DEF x
<1>6. CASE x.do = "alter"
    <2>1. x.column \in Columns /\ TableOf[x.column] \in Tables /\ r \in {2, 5}
        BY <1>1, <1>6, ColumnTypes DEF TakesBack
    <2>2. ~RemovedBy(r, k, TableOf[x.column], "table")
        <3> DEFINE t == TableOf[x.column]
        <3> SUFFICES ASSUME NEW i \in 1..k, Removes(Downgrades[r][i], t, "table")
                     PROVE  FALSE
            BY DEF RemovedBy
        <3> HIDE DEF t
        <3>1. i \in 1..L /\ L + 1 - i \in 1..L
            BY <1>1
        <3>2. << t, "table" >> \in Names(Upgrades[r][L + 1 - i])
            <4>1. \/ << t, "table" >> \in Names(Upgrades[r][L + 1 - i])
                  \/ r = 1 /\ t \in Tables /\ CreatedAt[t] = 15 - i
                BY <3>1, RemovesMade
            <4> QED
                BY <2>1, <4>1
        <3>3. r = 5
            <4> SUFFICES ASSUME r = 2
                         PROVE  FALSE
                BY <2>1
            <4>1. Upgrades[r] = Upgrade0002 /\ L = 3
                BY Lengths
            <4> QED
                BY <3>1, <3>2, <4>1, Names0002
        <3>4. Upgrades[r] = Upgrade0005 /\ L = 11
            BY <3>3, Lengths
        <3>5. PICK p \in 1..11 : p = L + 1 - i
            BY <3>1, <3>4
        <3>6. << t, "table" >> \in Names(Upgrade0005[p])
            BY <3>2, <3>4, <3>5
        <3>7. t \in Tables
            BY <2>1 DEF t
        <3> QED
            BY <3>6, <3>7, New0005, Created
    <2>3. Exists(s, TableOf[x.column])
        BY <1>3, <2>1, <2>2
    <2>4. x.column \in wide
        <3> HIDE DEF x
        <3> QED
            BY <1>6, <2>3 DEF Accepted, x
    <2> QED
        BY <1>6, <2>4
<1> QED
    BY <1>1, <1>4, <1>5, <1>6 DEF TakesBack

\* An accepted statement takes the schema one statement further down.
LEMMA DownStep ==
    ASSUME NEW s, NEW r \in 1..5, NEW k \in 0..(Len(Downgrades[r]) - 1), IsGoingDown(s, r, k)
    PROVE  IsGoingDown(After(s, Downgrades[r][k + 1]), r, k + 1)
<1> DEFINE L == Len(Upgrades[r])
           x == Downgrades[r][k + 1]
           a == After(s, x)
<1>1. PICK y : TakesBack(x, y, r)
    <2>1. PICK M \in Nat : M = L /\ M = Len(Downgrades[r])
        BY Mirror
    <2>2. k + 1 \in 1..M
        BY <2>1
    <2>3. TakesBack(x, Upgrades[r][L + 1 - (k + 1)], r)
        BY <2>1, <2>2, Mirror
    <2> QED
        BY <2>3
<1>2. IsDropping(x)
    BY <1>1 DEF TakesBack, IsDropping
<1>3. /\ IsSchema(a)
      /\ \A t, n : << t, n >> \in a.objects <=> << t, n >> \in s.objects /\ ~Removes(x, t, n)
      /\ x.do # "alter" => a.types = s.types
      /\ x.do = "alter" => \A c \in Columns \ {x.column} : a.types[c] = s.types[c]
    <2> HIDE DEF x
    <2>1. IsSchema(s)
        BY DEF IsGoingDown
    <2> QED
        BY <1>2, <2>1, AfterDropping
<1>4. ASSUME NEW t, NEW n
      PROVE  RemovedBy(r, k + 1, t, n) <=> RemovedBy(r, k, t, n) \/ Removes(x, t, n)
    BY NextRemovedBy
<1> HIDE DEF a
<1>5. ASSUME NEW t, NEW n, << t, n >> # Worker
      PROVE  << t, n >> \in a.objects <=> InRevision(r, t, n) /\ ~RemovedBy(r, k + 1, t, n)
    <2>1. << t, n >> \in s.objects <=> InRevision(r, t, n) /\ ~RemovedBy(r, k, t, n)
        BY <1>5 DEF IsGoingDown
    <2>2. << t, n >> \in a.objects <=> << t, n >> \in s.objects /\ ~Removes(x, t, n)
        BY <1>3
    <2> QED
        BY <1>4, <2>1, <2>2
<1>6. /\ RemovedBy(r, k + 1, "alerts", WorkerIndex) => Worker \notin a.objects
      /\ r >= 3 /\ ~RemovedBy(r, k + 1, "alerts", WorkerIndex) => Worker \in a.objects
    <2>1. /\ RemovedBy(r, k, "alerts", WorkerIndex) => Worker \notin s.objects
          /\ r >= 3 /\ ~RemovedBy(r, k, "alerts", WorkerIndex) => Worker \in s.objects
        BY DEF IsGoingDown
    <2>2. Worker \in a.objects <=> Worker \in s.objects /\ ~Removes(x, "alerts", WorkerIndex)
        BY <1>3 DEF Worker
    <2>3. RemovedBy(r, k + 1, "alerts", WorkerIndex) <=>
              RemovedBy(r, k, "alerts", WorkerIndex) \/ Removes(x, "alerts", WorkerIndex)
        BY <1>4
    <2> QED
        BY <2>1, <2>2, <2>3
<1>7. TypesSince(a.types, r - 1)
    <2>1. CASE r \in {1, 2}
        BY <2>1 DEF TypesSince
    <2>2. CASE r \in 3..5
        <3>1. \A c \in Integers0002 : s.types[c] = "INTEGER"
            BY <2>2 DEF IsGoingDown, TypesSince
        <3>2. ASSUME NEW c \in Integers0002
              PROVE  a.types[c] = s.types[c]
            <4>1. c \in Columns /\ c # "message"
                BY ColumnTypes
            <4>2. CASE x.do = "alter"
                <5>1. x.column = "message"
                    BY <1>1, <2>2, <4>2 DEF TakesBack
                <5> QED
                    BY <1>3, <4>1, <4>2, <5>1
            <4>3. CASE x.do # "alter"
                BY <1>3, <4>3
            <4> QED
                BY <4>2, <4>3
        <3> QED
            BY <2>2, <3>1, <3>2 DEF TypesSince
    <2> QED
        BY <2>1, <2>2
<1> QED
    BY <1>3, <1>5, <1>6, <1>7 DEF IsGoingDown, a

\* The whole downgrade drops all that the upgrade made.
LEMMA RemovedInTheEnd ==
    ASSUME NEW r \in 1..5, NEW t, NEW n, Made(r, t, n)
    PROVE  RemovedBy(r, Len(Downgrades[r]), t, n)
<1> DEFINE L == Len(Upgrades[r])
<1>1. PICK j \in 1..L : << t, n >> \in Names(Upgrades[r][j])
    BY DEF Made, MadeBy
<1>2. CASE r \in 2..5
    <2>1. PICK i \in 1..L : i = L + 1 - j /\ j = L + 1 - i
        <3>1. L \in Nat
            BY Lengths
        <3> QED
            BY <1>1, <3>1
    <2>2. TakesBack(Downgrades[r][i], Upgrades[r][L + 1 - i], r)
        BY <2>1, Mirror
    <2>3. TakesBack(Downgrades[r][i], Upgrades[r][j], r)
        BY <2>1, <2>2
    <2>4. Removes(Downgrades[r][i], t, n)
        <3>1. PICK x : x = Downgrades[r][i]
            OBVIOUS
        <3>2. PICK y : y = Upgrades[r][j]
            OBVIOUS
        <3>3. << t, n >> \in Names(y) /\ TakesBack(x, y, r)
            BY <1>1, <2>3, <3>1, <3>2
        <3>4. y.do # "alter" /\ y.do # "create table" /\ x.do = "drop" /\ x.on = y.on /\ x.name = y.name
            <4>1. y.do # "alter"
                BY <3>3 DEF Names
            <4>2. r # 1
                BY <1>2
            <4>3. x.do = "drop" /\ y.do \in {"add", "add if missing"} /\ x.on = y.on /\ x.name = y.name
                BY <3>3, <4>1, <4>2 DEF TakesBack
            <4> QED
                BY <4>3
        <3>5. << t, n >> \in {<< y.on, y.name >>}
            BY <3>3, <3>4 DEF Names
        <3> QED
            BY <3>1, <3>4, <3>5 DEF Removes
    <2> QED
        BY <2>1, <2>4, Mirror DEF RemovedBy
<1>3. CASE r = 1
    <2>1. /\ Upgrades[1] = Upgrade0001 /\ Len(Upgrades[1]) = 14 /\ Len(Downgrades[1]) = 14
        BY Lengths
    <2>2. t \in Tables
        BY <1>1, <1>3, <2>1, Names0001, Creation
    <2>3. PICK c \in 1..14 : c = CreatedAt[t]
        BY <2>2, Created
    <2>4. PICK i \in 1..14 : i = 15 - c /\ c = 15 - i
        <3>1. 15 - c \in 1..14 /\ c = 15 - (15 - c)
            OBVIOUS
        <3> QED
            BY <3>1
    <2>5. TakesBack(Downgrades[1][i], Upgrade0001[c], 1)
        <3>1. i \in 1..Len(Upgrades[1]) /\ Len(Upgrades[1]) + 1 - i = c
            BY <2>1, <2>4
        <3>2. TakesBack(Downgrades[1][i], Upgrades[1][Len(Upgrades[1]) + 1 - i], 1)
            BY <3>1, Mirror
        <3> QED
            BY <2>1, <3>1, <3>2
    <2>6. Upgrade0001[c].do = "create table" /\ Upgrade0001[c].on = t
        BY <2>2, <2>3, Creators
    <2>7. Removes(Downgrades[1][i], t, n)
        BY <2>5, <2>6 DEF TakesBack, Removes
    <2> QED
        BY <1>3, <2>1, <2>7 DEF RemovedBy
<1> QED
    BY <1>2, <1>3

\* And, after 0001, nothing else.
LEMMA OnlyMadeRemoved ==
    ASSUME NEW r \in 2..5, NEW t, NEW n, RemovedBy(r, Len(Downgrades[r]), t, n)
    PROVE  Made(r, t, n)
<1>1. Len(Downgrades[r]) = Len(Upgrades[r]) /\ Len(Upgrades[r]) \in Nat
    BY Mirror
<1>2. PICK i \in 1..Len(Upgrades[r]) : Removes(Downgrades[r][i], t, n)
    BY <1>1 DEF RemovedBy
<1>3. << t, n >> \in Names(Upgrades[r][Len(Upgrades[r]) + 1 - i])
    <2>1. \/ << t, n >> \in Names(Upgrades[r][Len(Upgrades[r]) + 1 - i])
          \/ r = 1 /\ t \in Tables /\ CreatedAt[t] = 15 - i
        <3>1. PICK p \in 1..5 : p = r
            OBVIOUS
        <3>2. Removes(Downgrades[p][i], t, n) /\ i \in 1..Len(Upgrades[p])
            BY <1>2, <3>1
        <3>3. \/ << t, n >> \in Names(Upgrades[p][Len(Upgrades[p]) + 1 - i])
              \/ p = 1 /\ t \in Tables /\ CreatedAt[t] = 15 - i
            BY <3>2, RemovesMade
        <3> QED
            BY <3>1, <3>3
    <2>2. r # 1
        OBVIOUS
    <2> QED
        BY <2>1, <2>2
<1>4. Len(Upgrades[r]) + 1 - i \in 1..Len(Upgrades[r])
    BY <1>1
<1> QED
    BY <1>3, <1>4 DEF Made, MadeBy

\* The whole script leads to the revision before.
LEMMA DownDone ==
    ASSUME NEW s, NEW r \in 1..5, IsGoingDown(s, r, Len(Downgrades[r]))
    PROVE  IsAt(s, r - 1)
<1> DEFINE L == Len(Downgrades[r])
<1>1. ASSUME NEW t, NEW n, << t, n >> # Worker
      PROVE  << t, n >> \in s.objects <=> InRevision(r - 1, t, n)
    <2>1. << t, n >> \in s.objects <=> InRevision(r, t, n) /\ ~RemovedBy(r, L, t, n)
        BY <1>1 DEF IsGoingDown
    <2>2. InRevision(r, t, n) <=> InRevision(r - 1, t, n) \/ Made(r, t, n)
        <3>1. PICK q \in Nat : q = r - 1 /\ r = q + 1
            OBVIOUS
        <3>2. InRevision(q + 1, t, n) <=> InRevision(q, t, n) \/ Made(q + 1, t, n)
            BY NextInRevision
        <3> QED
            BY <3>1, <3>2
    <2>3. Made(r, t, n) => RemovedBy(r, L, t, n)
        BY RemovedInTheEnd
    <2>4. InRevision(r - 1, t, n) => ~RemovedBy(r, L, t, n)
        <3>1. CASE r = 1
            BY <3>1, InRevisionIs
        <3>2. CASE r \in 2..5
            <4> SUFFICES ASSUME RemovedBy(r, L, t, n)
                         PROVE  ~InRevision(r - 1, t, n)
                OBVIOUS
            <4>1. Made(r, t, n)
                BY <3>2, OnlyMadeRemoved
            <4>2. PICK j \in 1..Len(Upgrades[r]) : << t, n >> \in Names(Upgrades[r][j])
                BY <4>1 DEF Made, MadeBy
            <4>3. PICK q \in 0..4 : r = q + 1 /\ q = r - 1
                BY <3>2
            <4>4. PICK k \in 0..(Len(Upgrades[q + 1]) - 1) : j = k + 1
                BY <4>2, <4>3, Lengths
            <4>5. << t, n >> \in Names(Upgrades[q + 1][k + 1])
                BY <4>2, <4>3, <4>4
            <4>6. ~InRevision(q, t, n)
                BY <1>1, <4>5, MadeIsNew
            <4> QED
                BY <4>3, <4>6
        <3> QED
            BY <3>1, <3>2
    <2> QED
        BY <2>1, <2>2, <2>3, <2>4
<1>2. r - 1 = 0 => Worker \notin s.objects
    <2> SUFFICES ASSUME r = 1
                 PROVE  Worker \notin s.objects
        OBVIOUS
    <2>1. << "alerts", WorkerIndex >> \in Names(Upgrade0001[9])
        BY Names0001
    <2>2. Made(1, "alerts", WorkerIndex)
        BY <2>1, MadeIs
    <2> QED
        BY <2>2, RemovedInTheEnd DEF IsGoingDown
<1>3. r - 1 >= 3 => Worker \in s.objects
    <2> SUFFICES ASSUME r \in {4, 5}
                 PROVE  ~RemovedBy(r, L, "alerts", WorkerIndex)
        BY DEF IsGoingDown
    <2> SUFFICES ASSUME Made(r, "alerts", WorkerIndex)
                 PROVE  FALSE
        BY OnlyMadeRemoved
    <2>1. CASE r = 4
        <3>1. PICK i \in 1..4 : << "alerts", WorkerIndex >> \in Names(Upgrade0004[i])
            BY <2>1, MadeIs
        <3> QED
            BY <3>1, New0004 DEF Worker
    <2>2. CASE r = 5
        <3>1. PICK i \in 1..11 : << "alerts", WorkerIndex >> \in Names(Upgrade0005[i])
            BY <2>2, MadeIs
        <3> QED
            BY <3>1, New0005 DEF Worker
    <2> QED
        BY <2>1, <2>2
<1> QED
    BY <1>1, <1>2, <1>3 DEF IsGoingDown, IsAt

-----------------------------------------------------------------------------
(* The schema at head.                                                     *)

\* Object n of table t is there once every upgrade has run.
InHead(t, n) ==
    \/ t = "users" /\ n \in {"table", "pk"}
    \/ t = "fields" /\ n \in {"table", "pk", "fk_user_id", "ix_fields_user_id"}
    \/ t = "weather_forecasts" /\
       n \in {"table", "pk", "fk_field_id", "uq_weather_forecasts_field_id_forecast_date",
              "ix_weather_forecasts_field_id_forecast_date", "rain_probability_pct_bounds",
              "snow_probability_pct_bounds", "rain_mm_non_negative", "snow_mm_non_negative",
              "wind_speed_mps_non_negative", "wind_gust_mps_non_negative",
              "temp_min_le_temp_max"}
    \/ t = "alerts" /\
       n \in {"table", "pk", "fk_field_id", "ix_alerts_field_id_active_deleted",
              "ix_alerts_active_deleted_id", WorkerIndex, "lookahead_days_bounds",
              "threshold_probability_bounds", "threshold_non_negative_for_metric",
              "deleted_alerts_must_be_inactive", "uq_alerts_active_rule"}
    \/ t = "alert_triggers" /\
       n \in {"table", "pk", "fk_alert_id", "fk_weather_forecast_id",
              "uq_alert_triggers_alert_id_weather_forecast_id",
              "ix_alert_triggers_user_id_created_at", "ix_alert_triggers_alert_id_created_at",
              "threshold_probability_snapshot_bounds",
              "threshold_snapshot_non_negative_for_metric", "lookahead_days_snapshot_bounds"}
    \/ t = "notification_deliveries" /\
       n \in {"table", "pk", "fk_trigger_id", "uq_trigger_id",
              "ix_notification_deliveries_status_next_attempt_at",
              "attempt_count_non_negative", "response_status_http_bounds",
              "attempt_count_matches_status", "sent_at_matches_status",
              "delivered_response_status_bounds", "delivered_last_error_cleared",
              "pending_has_no_delivery_result", "failed_or_retrying_requires_error"}

\* What the models declare of one table.
LEMMA DeclaredIs ==
    \A u, t, n : << t, n >> \in Declared(u) /\
                 u \in {"users", "fields", "weather_forecasts", "alerts", "alert_triggers",
                        "notification_deliveries"} <=> u = t /\ InHead(t, n)
<1> SUFFICES ASSUME NEW u, NEW t, NEW n
             PROVE  << t, n >> \in Declared(u) /\
                    u \in {"users", "fields", "weather_forecasts", "alerts", "alert_triggers",
                           "notification_deliveries"} <=> u = t /\ InHead(t, n)
    OBVIOUS
<1>1. CASE u = "users"
    BY <1>1 DEF Declared, InHead
<1>2. CASE u = "fields"
    BY <1>2 DEF Declared, InHead
<1>3. CASE u = "weather_forecasts"
    BY <1>3 DEF Declared, InHead
<1>4. CASE u = "alerts"
    BY <1>4 DEF Declared, InHead
<1>5. CASE u = "alert_triggers"
    BY <1>5 DEF Declared, InHead
<1>6. CASE u = "notification_deliveries"
    BY <1>6 DEF Declared, InHead
<1>7. CASE u \notin {"users", "fields", "weather_forecasts", "alerts", "alert_triggers",
                     "notification_deliveries"}
    BY <1>7 DEF InHead
<1> QED
    BY <1>1, <1>2, <1>3, <1>4, <1>5, <1>6, <1>7

\* The objects of the models, pairs all of them.
LEMMA ModelsAre ==
    /\ \A t, n : << t, n >> \in Models.objects <=> InHead(t, n)
    /\ \A o \in Models.objects : \E t, n : o = << t, n >>
    /\ Models.types = TypeAtHead
    /\ Models = [objects |-> Models.objects, types |-> Models.types]
<1> DEFINE T == {"users", "fields", "weather_forecasts", "alerts", "alert_triggers",
                 "notification_deliveries"}
<1>1. Models.objects = UNION {Declared(u) : u \in T} /\ Models.types = TypeAtHead
    BY DEF Models
<1>2. Models = [objects |-> Models.objects, types |-> Models.types]
    BY DEF Models
<1>3. \A o : o \in Models.objects <=> \E u \in T : o \in Declared(u)
    BY <1>1
<1>4. \A u : \A o \in Declared(u) : \E t, n : o = << t, n >>
    BY DEF Declared
<1>5. \A u, t, n : << t, n >> \in Declared(u) /\ u \in T <=> u = t /\ InHead(t, n)
    BY DeclaredIs
<1> HIDE DEF T
<1>6. \A t, n : << t, n >> \in Models.objects <=> InHead(t, n)
    BY <1>3, <1>5
<1> QED
    BY <1>1, <1>2, <1>3, <1>4, <1>6

\* They are what the upgrades make.
LEMMA HeadIs ==
    ASSUME NEW t, NEW n
    PROVE  InRevision(5, t, n) <=> InHead(t, n)
<1>1. Made(1, t, n) \/ << t, n >> = Worker \/ Made(4, t, n) \/ Made(5, t, n) => InHead(t, n)
    <2>1. ASSUME Made(1, t, n)
          PROVE  InHead(t, n)
        <3>1. PICK i \in 1..14 : << t, n >> \in Names(Upgrade0001[i])
            BY <2>1, MadeIs
        <3> QED
            BY <3>1, Names0001 DEF InHead
    <2>2. ASSUME << t, n >> = Worker
          PROVE  InHead(t, n)
        BY <2>2 DEF Worker, InHead
    <2>3. ASSUME Made(4, t, n)
          PROVE  InHead(t, n)
        <3>1. PICK i \in 1..4 : << t, n >> \in Names(Upgrade0004[i])
            BY <2>3, MadeIs
        <3> QED
            BY <3>1, Names0004 DEF InHead
    <2>4. ASSUME Made(5, t, n)
          PROVE  InHead(t, n)
        <3>1. PICK i \in 1..11 : << t, n >> \in Names(Upgrade0005[i])
            BY <2>4, MadeIs
        <3>2. i \in 5..11 => DeliveryChecks[i - 4] \in
                  { "response_status_http_bounds", "attempt_count_matches_status",
                    "sent_at_matches_status", "delivered_response_status_bounds",
                    "delivered_last_error_cleared", "pending_has_no_delivery_result",
                    "failed_or_retrying_requires_error" }
            BY DEF DeliveryChecks
        <3> QED
            BY <3>1, <3>2, Names0005 DEF InHead
    <2> QED
        BY <2>1, <2>2, <2>3, <2>4
<1>2. ASSUME InHead(t, n)
      PROVE  Made(1, t, n) \/ << t, n >> = Worker \/ Made(4, t, n) \/ Made(5, t, n)
    <2>1. /\ \A i \in 1..14 : << t, n >> \in Names(Upgrade0001[i]) => Made(1, t, n)
          /\ \A i \in 1..4 : << t, n >> \in Names(Upgrade0004[i]) => Made(4, t, n)
          /\ \A i \in 1..11 : << t, n >> \in Names(Upgrade0005[i]) => Made(5, t, n)
        BY MadeIs
    <2>2. CASE t \in {"users", "fields", "weather_forecasts"}
        <3>1. \/ << t, n >> \in Names(Upgrade0001[1])
              \/ << t, n >> \in Names(Upgrade0001[2])
              \/ << t, n >> \in Names(Upgrade0001[3])
              \/ << t, n >> \in Names(Upgrade0001[4])
              \/ << t, n >> \in Names(Upgrade0001[5])
            BY <1>2, <2>2, Names0001 DEF InHead
        <3> QED
            BY <2>1, <3>1
    <2>3. CASE t = "alerts"
        <3>1. \/ << t, n >> \in Names(Upgrade0001[6])
              \/ << t, n >> \in Names(Upgrade0001[7])
              \/ << t, n >> \in Names(Upgrade0001[8])
              \/ << t, n >> = Worker
              \/ << t, n >> \in Names(Upgrade0004[1])
              \/ << t, n >> \in Names(Upgrade0004[2])
              \/ << t, n >> \in Names(Upgrade0005[2])
              \/ << t, n >> \in Names(Upgrade0005[4])
            <4>1. /\ n = "threshold_probability_bounds" => << t, n >> \in Names(Upgrade0004[1])
                  /\ n = "threshold_non_negative_for_metric" => << t, n >> \in Names(Upgrade0004[2])
                BY <2>3, Names0004
            <4>2. /\ n = "deleted_alerts_must_be_inactive" => << t, n >> \in Names(Upgrade0005[2])
                  /\ n = "uq_alerts_active_rule" => << t, n >> \in Names(Upgrade0005[4])
                BY <2>3, Names0005
            <4>3. /\ n \in {"table", "pk", "fk_field_id", "lookahead_days_bounds"} =>
                         << t, n >> \in Names(Upgrade0001[6])
                  /\ n = "ix_alerts_field_id_active_deleted" => << t, n >> \in Names(Upgrade0001[7])
                  /\ n = "ix_alerts_active_deleted_id" => << t, n >> \in Names(Upgrade0001[8])
                BY <2>3, Names0001
            <4>4. n = WorkerIndex => << t, n >> = Worker
                BY <2>3 DEF Worker
            <4>5. \/ n \in {"table", "pk", "fk_field_id", "lookahead_days_bounds"}
                  \/ n \in {"ix_alerts_field_id_active_deleted", "ix_alerts_active_deleted_id"}
                  \/ n = WorkerIndex
                  \/ n \in {"threshold_probability_bounds", "threshold_non_negative_for_metric"}
                  \/ n \in {"deleted_alerts_must_be_inactive", "uq_alerts_active_rule"}
                BY <1>2, <2>3 DEF InHead
            <4> QED
                BY <4>1, <4>2, <4>3, <4>4, <4>5
        <3> QED
            BY <2>1, <3>1
    <2>4. CASE t = "alert_triggers"
        <3>1. \/ << t, n >> \in Names(Upgrade0001[10])
              \/ << t, n >> \in Names(Upgrade0001[11])
              \/ << t, n >> \in Names(Upgrade0001[12])
              \/ << t, n >> \in Names(Upgrade0004[3])
              \/ << t, n >> \in Names(Upgrade0004[4])
              \/ << t, n >> \in Names(Upgrade0005[3])
            <4>1. /\ n = "threshold_probability_snapshot_bounds" => << t, n >> \in Names(Upgrade0004[3])
                  /\ n = "threshold_snapshot_non_negative_for_metric" =>
                         << t, n >> \in Names(Upgrade0004[4])
                BY <2>4, Names0004
            <4>2. n = "lookahead_days_snapshot_bounds" => << t, n >> \in Names(Upgrade0005[3])
                BY <2>4, Names0005
            <4>3. /\ n \in {"table", "pk", "fk_alert_id", "fk_weather_forecast_id",
                            "uq_alert_triggers_alert_id_weather_forecast_id"} =>
                         << t, n >> \in Names(Upgrade0001[10])
                  /\ n = "ix_alert_triggers_user_id_created_at" => << t, n >> \in Names(Upgrade0001[11])
                  /\ n = "ix_alert_triggers_alert_id_created_at" => << t, n >> \in Names(Upgrade0001[12])
                BY <2>4, Names0001
            <4>4. \/ n \in {"table", "pk", "fk_alert_id", "fk_weather_forecast_id",
                            "uq_alert_triggers_alert_id_weather_forecast_id"}
                  \/ n \in {"ix_alert_triggers_user_id_created_at",
                            "ix_alert_triggers_alert_id_created_at"}
                  \/ n \in {"threshold_probability_snapshot_bounds",
                            "threshold_snapshot_non_negative_for_metric"}
                  \/ n = "lookahead_days_snapshot_bounds"
                BY <1>2, <2>4 DEF InHead
            <4> QED
                BY <4>1, <4>2, <4>3, <4>4
        <3> QED
            BY <2>1, <3>1
    <2>5. CASE t = "notification_deliveries"
        <3>1. \/ << t, n >> \in Names(Upgrade0001[13])
              \/ << t, n >> \in Names(Upgrade0001[14])
              \/ \E i \in 1..7 : n = DeliveryChecks[i]
            <4>1. /\ DeliveryChecks[1] = "response_status_http_bounds"
                  /\ DeliveryChecks[2] = "attempt_count_matches_status"
                  /\ DeliveryChecks[3] = "sent_at_matches_status"
                  /\ DeliveryChecks[4] = "delivered_response_status_bounds"
                  /\ DeliveryChecks[5] = "delivered_last_error_cleared"
                  /\ DeliveryChecks[6] = "pending_has_no_delivery_result"
                  /\ DeliveryChecks[7] = "failed_or_retrying_requires_error"
                BY DEF DeliveryChecks
            <4> QED
                BY <1>2, <2>5, <4>1, Names0001 DEF InHead
        <3>2. ASSUME NEW i \in 1..7, n = DeliveryChecks[i]
              PROVE  Made(5, t, n)
            <4>1. PICK j \in 5..11 : j = i + 4 /\ j - 4 = i
                OBVIOUS
            <4>2. << t, n >> \in Names(Upgrade0005[j])
                BY <2>5, <3>2, <4>1, Names0005
            <4> QED
                BY <2>1, <4>2
        <3> QED
            BY <2>1, <3>1, <3>2
    <2> QED
        BY <1>2, <2>2, <2>3, <2>4, <2>5 DEF InHead
<1> QED
    BY <1>1, <1>2, InRevisionIs

\* The schema of the last revision is the models'.
LEMMA LastIsTheModels ==
    ASSUME NEW s, IsAt(s, 5)
    PROVE  s = Models
<1>1. ASSUME NEW t, NEW n
      PROVE  << t, n >> \in s.objects <=> << t, n >> \in Models.objects
    <2>1. CASE << t, n >> = Worker
        <3>1. InHead(t, n)
            BY <2>1 DEF Worker, InHead
        <3> QED
            BY <2>1, <3>1, ModelsAre DEF IsAt
    <2>2. CASE << t, n >> # Worker
        BY <2>2, HeadIs, ModelsAre DEF IsAt
    <2> QED
        BY <2>1, <2>2
<1>2. s.objects = Models.objects
    BY <1>1, ModelsAre DEF IsAt, IsSchema
<1>3. s.types = TypeAtHead
    <2>1. ASSUME NEW c \in Columns
          PROVE  s.types[c] = TypeAtHead[c]
        <3>1. c \in Integers0002 \/ c = "message"
            BY ColumnTypes DEF Integers0002
        <3> QED
            BY <3>1, ColumnTypes DEF IsAt, TypesSince
    <2> QED
        BY <2>1, ColumnTypes DEF IsAt, IsSchema
<1> QED
    BY <1>2, <1>3, ModelsAre DEF IsAt, IsSchema

-----------------------------------------------------------------------------
(* Commands.                                                               *)

\* A command to revision c has reached revision a and run k statements of the next
\* script, which left the schema as s.
Progress(c, a, s, k) ==
    /\ c \in {Idle, a} => k = 0 /\ IsAt(s, a)
    /\ c > a => k <= Len(Upgrades[a + 1]) /\ IsGoingUp(s, a, k)
    /\ c # Idle /\ c < a => k <= Len(Downgrades[a]) /\ IsGoingDown(s, a, k)

\* The committed schema is that of the committed revision, and what the running
\* transaction sees is that of the statements it has run.
MigrationInv ==
    /\ version \in 0..5 /\ at \in 0..5 /\ command \in -1..5 /\ step \in Nat
    /\ IsAt(schema, version)
    /\ Progress(command, at, draft, step)

\* Before the next script, wherever the command goes.
LEMMA Arrived ==
    ASSUME NEW c \in -1..5, NEW a \in 0..5, NEW s, IsAt(s, a)
    PROVE  Progress(c, a, s, 0)
<1>1. IsGoingUp(s, a, 0) /\ IsGoingDown(s, a, 0)
    BY Starts
<1>2. c > a => 0 <= Len(Upgrades[a + 1])
    <2> SUFFICES ASSUME c > a
                 PROVE  0 <= Len(Upgrades[a + 1])
        OBVIOUS
    <2>1. PICK r \in 1..5 : r = a + 1
        OBVIOUS
    <2>2. Len(Upgrades[r]) \in Nat
        BY Mirror
    <2> QED
        BY <2>1, <2>2
<1>3. c # Idle /\ c < a => 0 <= Len(Downgrades[a])
    <2> SUFFICES ASSUME c # Idle, c < a
                 PROVE  0 <= Len(Downgrades[a])
        OBVIOUS
    <2>1. a \in 1..5
        BY DEF Idle
    <2>2. Len(Downgrades[a]) \in Nat
        BY <2>1, Mirror
    <2> QED
        BY <2>2
<1> QED
    BY <1>1, <1>2, <1>3 DEF Progress

\* An empty database is at revision 0.
LEMMA MigrationInit == Init => MigrationInv
<1> SUFFICES ASSUME Init
             PROVE  MigrationInv
    OBVIOUS
<1>1. IsSchema(schema)
    BY DEF Init, IsSchema
<1>2. ASSUME NEW t, NEW n
      PROVE  << t, n >> \notin schema.objects /\ ~InRevision(0, t, n)
    BY InRevisionIs DEF Init
<1>3. IsAt(schema, 0)
    BY <1>1, <1>2 DEF IsAt, TypesSince, Worker
<1>4. Progress(-1, 0, schema, 0)
    BY <1>3, Arrived
<1> QED
    BY <1>3, <1>4 DEF Init, MigrationInv, Idle

\* A command that ends leaves the transaction where the committed schema is.
LEMMA Closed ==
    ASSUME Close, version' \in 0..5, IsAt(schema', version')
    PROVE  MigrationInv'
<1>1. Progress(-1, version', schema', 0)
    BY Arrived
<1> QED
    BY <1>1 DEF Close, MigrationInv, Idle

\* The script of a command on its way up, and down.
LEMMA ScriptIs ==
    ASSUME MigrationInv, command \notin {Idle, at}
    PROVE  \/ Upgrading /\ at \in 0..4 /\ Script = Upgrades[at + 1]
           \/ ~Upgrading /\ Downgrading /\ at \in 1..5 /\ Script = Downgrades[at]
<1>1. CASE command > at
    BY <1>1 DEF MigrationInv, Upgrading, Script
<1>2. CASE command < at
    BY <1>2 DEF MigrationInv, Upgrading, Downgrading, Script, Idle
<1> QED
    BY <1>1, <1>2 DEF MigrationInv

\* Every step of a command keeps the invariant.
LEMMA MigrationStep == MigrationInv /\ [Next]_vars => MigrationInv'
<1> SUFFICES ASSUME MigrationInv, [Next]_vars
             PROVE  MigrationInv'
    OBVIOUS
<1>1. ASSUME Begin
      PROVE  MigrationInv'
    <2>1. command = Idle /\ command' \in -1..5
        BY <1>1 DEF Begin, Latest
    <2>2. step = 0 /\ IsAt(draft, at) /\ at \in 0..5
        BY <2>1 DEF MigrationInv, Progress
    <2>3. Progress(command', at, draft, 0)
        BY <2>1, <2>2, Arrived
    <2> QED
        BY <1>1, <2>1, <2>2, <2>3 DEF Begin, MigrationInv
<1>2. ASSUME Execute
      PROVE  MigrationInv'
    <2>1. command \notin {Idle, at} /\ step < Len(Script)
        BY <1>2 DEF Execute
    <2>2. Progress(command, at, draft', step + 1)
        <3>1. CASE Upgrading
            <4>1. PICK r \in 0..4 : r = at /\ Script = Upgrades[r + 1]
                BY <2>1, <3>1, ScriptIs
            <4>2. PICK L \in Nat : L = Len(Upgrades[r + 1])
                <5>1. PICK q \in 1..5 : q = r + 1
                    OBVIOUS
                <5> QED
                    BY <5>1, Mirror
            <4>3. PICK k \in 0..(L - 1) : k = step
                BY <2>1, <4>1, <4>2 DEF MigrationInv
            <4>4. k \in 0..(Len(Upgrades[r + 1]) - 1) /\ IsGoingUp(draft, r, k)
                BY <3>1, <4>1, <4>2, <4>3 DEF MigrationInv, Progress, Upgrading
            <4>5. IsGoingUp(After(draft, Upgrades[r + 1][k + 1]), r, k + 1)
                BY <4>4, UpStep
            <4>6. draft' = After(draft, Upgrades[r + 1][k + 1])
                BY <1>2, <4>1, <4>3 DEF Execute
            <4>7. IsGoingUp(draft', at, step + 1) /\ step + 1 <= Len(Upgrades[at + 1])
                BY <4>1, <4>2, <4>3, <4>5, <4>6
            <4> QED
                BY <3>1, <4>7 DEF Progress, Upgrading, MigrationInv, Idle
        <3>2. CASE ~Upgrading
            <4>1. PICK r \in 1..5 : r = at /\ Script = Downgrades[r] /\ Downgrading
                BY <2>1, <3>2, ScriptIs
            <4>2. PICK L \in Nat : L = Len(Downgrades[r])
                BY Mirror
            <4>3. PICK k \in 0..(L - 1) : k = step
                BY <2>1, <4>1, <4>2 DEF MigrationInv
            <4>4. k \in 0..(Len(Downgrades[r]) - 1) /\ IsGoingDown(draft, r, k)
                BY <4>1, <4>2, <4>3 DEF MigrationInv, Progress, Downgrading
            <4>5. IsGoingDown(After(draft, Downgrades[r][k + 1]), r, k + 1)
                BY <4>4, DownStep
            <4>6. draft' = After(draft, Downgrades[r][k + 1])
                BY <1>2, <4>1, <4>3 DEF Execute
            <4>7. IsGoingDown(draft', at, step + 1) /\ step + 1 <= Len(Downgrades[at])
                BY <4>1, <4>2, <4>3, <4>5, <4>6
            <4> QED
                BY <2>1, <3>2, <4>7 DEF Progress, Upgrading, MigrationInv
        <3> QED
            BY <3>1, <3>2
    <2> QED
        BY <1>2, <2>2 DEF Execute, MigrationInv
<1>3. ASSUME NextRevision
      PROVE  MigrationInv'
    <2>1. command \notin {Idle, at} /\ step = Len(Script) /\ command \in -1..5
        BY <1>3 DEF NextRevision, MigrationInv
    <2>2. at' \in 0..5 /\ IsAt(draft, at')
        <3>1. CASE Upgrading
            <4>1. PICK r \in 0..4 : r = at /\ Script = Upgrades[r + 1]
                BY <2>1, <3>1, ScriptIs
            <4>2. IsGoingUp(draft, r, Len(Upgrades[r + 1]))
                BY <2>1, <3>1, <4>1 DEF MigrationInv, Progress, Upgrading
            <4>3. IsAt(draft, r + 1)
                BY <4>2, UpDone
            <4> QED
                BY <1>3, <3>1, <4>1, <4>3 DEF NextRevision
        <3>2. CASE ~Upgrading
            <4>1. PICK r \in 1..5 : r = at /\ Script = Downgrades[r] /\ Downgrading
                BY <2>1, <3>2, ScriptIs
            <4>2. IsGoingDown(draft, r, Len(Downgrades[r]))
                BY <2>1, <4>1 DEF MigrationInv, Progress, Downgrading
            <4>3. IsAt(draft, r - 1)
                BY <4>2, DownDone
            <4> QED
                BY <1>3, <3>2, <4>1, <4>3 DEF NextRevision
        <3> QED
            BY <3>1, <3>2
    <2>3. Progress(command, at', draft, 0)
        BY <2>1, <2>2, Arrived
    <2> QED
        BY <1>3, <2>2, <2>3 DEF NextRevision, MigrationInv
<1>4. ASSUME CommitCommand
      PROVE  MigrationInv'
    <2>1. IsAt(draft, at) /\ at \in 0..5
        BY <1>4 DEF CommitCommand, MigrationInv, Progress
    <2> QED
        BY <1>4, <2>1, Closed DEF CommitCommand
<1>5. ASSUME Refuse \/ Crash
      PROVE  MigrationInv'
    <2>1. Close /\ version' = version /\ schema' = schema
        BY <1>5 DEF Refuse, Crash
    <2> QED
        BY <2>1, Closed DEF MigrationInv
<1>6. ASSUME Write
      PROVE  MigrationInv'
    BY <1>6 DEF Write, MigrationInv
<1>7. ASSUME UNCHANGED vars
      PROVE  MigrationInv'
    BY <1>7 DEF vars, MigrationInv
<1> QED
    BY <1>1, <1>2, <1>3, <1>4, <1>5, <1>6, <1>7 DEF Next

\* In every state, of any number of commands to whichever revisions, refused or killed
\* at whichever statement, the committed schema is that of alembic_version: what the
\* upgrades up to it make, the worker index apart, which 0003's downgrade drops and
\* 0001 had made. What a running transaction sees is that much and what the statements
\* it has run add or drop.
THEOREM MigrationInvariant == Spec => []MigrationInv
BY MigrationInit, MigrationStep, PTL DEF Spec

\* At head the schema is the one the models declare, by whatever upgrades and
\* downgrades the database came there.
THEOREM HeadStaysTheModels == Spec => []HeadIsTheModels
<1>1. MigrationInv => HeadIsTheModels
    BY LastIsTheModels DEF MigrationInv, HeadIsTheModels, Latest
<1> QED
    BY <1>1, MigrationInvariant, PTL

\* The schema refuses no statement of an upgrade: what it adds is not there yet, and
\* what it stands on is. Of rows written before head, which a constraint could refuse,
\* it says nothing.
THEOREM UpgradesStayAccepted == Spec => []UpgradesAreAccepted
<1>1. ASSUME MigrationInv, Upgrading, step < Len(Script)
      PROVE  Accepted(draft, Script[step + 1])
    <2>1. command \notin {Idle, at}
        BY <1>1 DEF MigrationInv, Upgrading, Idle
    <2>2. PICK r \in 0..4 : r = at /\ Script = Upgrades[r + 1]
        BY <1>1, <2>1, ScriptIs
    <2>3. PICK L \in Nat : L = Len(Upgrades[r + 1])
        <3>1. PICK q \in 1..5 : q = r + 1
            OBVIOUS
        <3> QED
            BY <3>1, Mirror
    <2>4. PICK k \in 0..(L - 1) : k = step
        BY <1>1, <2>2, <2>3 DEF MigrationInv
    <2>5. k \in 0..(Len(Upgrades[r + 1]) - 1) /\ IsGoingUp(draft, r, k)
        BY <1>1, <2>2, <2>3, <2>4 DEF MigrationInv, Progress, Upgrading
    <2>6. Accepted(draft, Upgrades[r + 1][k + 1])
        BY <2>5, UpAccepted
    <2> QED
        BY <2>2, <2>4, <2>6
<1>2. MigrationInv => UpgradesAreAccepted
    BY <1>1 DEF UpgradesAreAccepted
<1> QED
    BY <1>2, MigrationInvariant, PTL

\* A statement of a downgrade is refused for a value that only the type at head holds,
\* or, in 0001's, for the worker index that 0003's has dropped; for nothing else.
THEOREM ObstaclesAreTheTwo == Spec => []DowngradeObstacles
<1>1. ASSUME MigrationInv, Downgrading, step < Len(Script), ~Accepted(draft, Script[step + 1])
      PROVE  \/ Script[step + 1].do = "alter" /\ Script[step + 1].column \in wide
             \/ at = 1 /\ Script[step + 1] = Drop("alerts", WorkerIndex)
    <2>1. command \notin {Idle, at} /\ ~Upgrading
        BY <1>1 DEF MigrationInv, Downgrading, Upgrading
    <2>2. PICK r \in 1..5 : r = at /\ Script = Downgrades[r]
        BY <2>1, <1>1, ScriptIs
    <2>3. PICK L \in Nat : L = Len(Downgrades[r])
        BY Mirror
    <2>4. PICK k \in 0..(L - 1) : k = step
        BY <1>1, <2>2, <2>3 DEF MigrationInv
    <2>5. k \in 0..(Len(Downgrades[r]) - 1) /\ IsGoingDown(draft, r, k)
        BY <1>1, <2>2, <2>3, <2>4 DEF MigrationInv, Progress, Downgrading
    <2>6. ~Accepted(draft, Downgrades[r][k + 1])
        BY <1>1, <2>2, <2>4
    <2>7. \/ Downgrades[r][k + 1].do = "alter" /\ Downgrades[r][k + 1].column \in wide
          \/ r = 1 /\ Downgrades[r][k + 1] = Drop("alerts", WorkerIndex)
        BY <2>5, <2>6, DownAccepted
    <2> QED
        BY <2>2, <2>4, <2>7
<1>2. MigrationInv => DowngradeObstacles
    BY <1>1 DEF DowngradeObstacles
<1> QED
    BY <1>2, MigrationInvariant, PTL

=============================================================================
