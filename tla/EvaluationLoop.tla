--------------------------- MODULE EvaluationLoop ---------------------------
(***************************************************************************)
(* The loops of evaluate_alerts statement by statement.  Evaluation.tla    *)
(* takes all that a cycle writes as one step; here each INSERT sees what   *)
(* is committed by then, waits for another cycle's uncommitted row of the  *)
(* same key, and keeps its own row locked until the commit.  The stamps    *)
(* are assigned to the loaded alerts and written, in the order of their    *)
(* ids, by the autoflush of the next statement or by the commit; those     *)
(* rows stay locked too, and a request that updates one of them waits.     *)
(*                                                                         *)
(* The INSERT of a delivery row is taken with that of its trigger: its key *)
(* is an id that nobody else knows yet.                                    *)
(***************************************************************************)
EXTENDS Evaluation

VARIABLES
    left,        \* alerts a cycle has not finished, in loop order
    ahead,       \* forecasts of the first of them, from the one to insert next on
    inserted,    \* triggers it has inserted, uncommitted
    assigned,    \* alerts it has assigned a stamp
    locked       \* and those whose stamp is written, uncommitted

ASSUME LoopAssumption == IsFiniteSet(Workers) /\ IsFiniteSet(Forecasts)

loopVars == << left, ahead, inserted, assigned, locked >>
loopCycleVars == << vars, loopVars >>

-----------------------------------------------------------------------------
(* Orders.                                                                 *)

\* The lists of a finite set, each element once.
Lists(S) == {s \in [1..Cardinality(S) -> S] : \A i, j \in DOMAIN s : s[i] = s[j] => i = j}

\* Mutant: the query of the alerts has no ORDER BY.
AnyAlertOrder(ids) == Lists(ids)

\* ORDER BY alerts.id
AlertOrders(ids) ==
    {s \in Lists(ids) : \A i, j \in DOMAIN s : i < j => s[i] < s[j]}

\* Mutant: the query of the forecasts has no ORDER BY.
AnyForecastOrder(ids) == Lists(ids)

\* ORDER BY field_id, forecast_date: the list of each field is in date order.
ForecastOrders(ids) ==
    {s \in Lists(ids) : \A i, j \in DOMAIN s : i < j => ForecastDate[s[i]] < ForecastDate[s[j]]}

-----------------------------------------------------------------------------
(* Where a cycle is, and what it waits for.                                *)

InLoop(w) == phase[w] = "insert"

\* forecasts_by_field.get(alert.field_id)
OfField(rows, field) == {f \in DOMAIN rows : ForecastField[f] = field}

\* forecast_matches_alert
ForecastMatches(alert, row) ==
    CompareMetric(Reading(row, alert.metric), alert.operator, alert.threshold_value)

\* The inner loop goes on through s to the next forecast to insert for alert a,
\* past those that do not match; it ends at the first one past the alert's own
\* window (the break), or with s.
GoOn(w, a, s, rows) ==
    \E n \in 1..(Len(s) + 1) :
        /\ \A i \in 1..(n - 1) :
               Considers(w, a, s[i]) /\ ~ForecastMatches(found[w][a], rows[s[i]])
        /\ \/ /\ n <= Len(s)
              /\ Considers(w, a, s[n]) /\ ForecastMatches(found[w][a], rows[s[n]])
              /\ ahead' = [ahead EXCEPT ![w] = SubSeq(s, n, Len(s))]
           \/ /\ n <= Len(s) => ~Considers(w, a, s[n])
              /\ ahead' = [ahead EXCEPT ![w] = << >>]

\* The outer loop turns to the first alert of s, if there is one.
TurnTo(w, s, rows) ==
    /\ left' = [left EXCEPT ![w] = s]
    /\ \/ s = << >> /\ ahead' = [ahead EXCEPT ![w] = << >>]
       \/ /\ s # << >>
          /\ \E order \in ForecastOrders(OfField(rows, found[w][Head(s)].field_id)) :
                 GoOn(w, Head(s), order, rows)

\* At an alert and the forecast whose trigger is inserted next.
Inserting(w) == InLoop(w) /\ ahead[w] # << >>

\* The trigger of the next INSERT.
NextTrigger(w) == Snapshot(w, Head(left[w]), Head(ahead[w]))

Committing(w) == InLoop(w) /\ left[w] = << >>

\* Stamps that the next statement, or the commit, writes before anything else,
Dirty(w) == assigned[w] \ locked[w]

\* in the order of the ids.
FirstDirty(w) == CHOOSE a \in Dirty(w) : \A b \in Dirty(w) : a <= b

Flushing(w) == (Inserting(w) \/ Committing(w)) /\ Dirty(w) # {}

\* Cycle w waits for a row of cycle v.
WaitsFor(w, v) ==
    /\ w # v
    /\ \/ Flushing(w) /\ FirstDirty(w) \in locked[v]
       \/ /\ Inserting(w) /\ ~Flushing(w)
          /\ \E t \in inserted[v] : Key(t) = Key(NextTrigger(w))

Waits(w) == \E v \in Workers : WaitsFor(w, v)

\* The UPDATE of a request waits for a row of a cycle.
RequestWaits(r) ==
    /\ request[r] # "none"
    /\ AssignedBy(r) # loaded[r]
    /\ \E w \in Workers : target[r] \in locked[w]

-----------------------------------------------------------------------------
(* Steps.                                                                  *)

\* The session ends, and with it its locks.
EndLoop(w) ==
    /\ left' = [left EXCEPT ![w] = << >>]
    /\ ahead' = [ahead EXCEPT ![w] = << >>]
    /\ inserted' = [inserted EXCEPT ![w] = {}]
    /\ assigned' = [assigned EXCEPT ![w] = {}]
    /\ locked' = [locked EXCEPT ![w] = {}]

\* The two queries, the second of which leads to the first alert.
Query(w) ==
    \/ LoadAlerts(w) /\ UNCHANGED loopVars
    \/ /\ LoadForecasts(w)
       /\ \E order \in AlertOrders(DOMAIN found[w]) :
              TurnTo(w, order, candidates'[w])
       /\ UNCHANGED << inserted, assigned, locked >>

\* INSERT ... ON CONFLICT DO NOTHING RETURNING id.
Insert(w) ==
    /\ Inserting(w) /\ ~Flushing(w) /\ ~Waits(w)
    /\ inserted' = [inserted EXCEPT ![w] =
           @ \cup {t \in {NextTrigger(w)} : \A old \in triggers : Key(old) # Key(t)}]
    /\ GoOn(w, Head(left[w]), Tail(ahead[w]), candidates[w])
    /\ UNCHANGED << vars, left, assigned, locked >>

\* alert.last_evaluated_at = evaluated_at, and on to the next alert.
Stamp(w) ==
    /\ InLoop(w) /\ left[w] # << >> /\ ahead[w] = << >>
    /\ assigned' = [assigned EXCEPT ![w] = @ \cup {Head(left[w])}]
    /\ TurnTo(w, Tail(left[w]), candidates[w])
    /\ UNCHANGED << vars, inserted, locked >>

\* The flush: an UPDATE per alert.
WriteStamp(w) ==
    /\ Flushing(w) /\ ~Waits(w)
    /\ locked' = [locked EXCEPT ![w] = @ \cup {FirstDirty(w)}]
    /\ UNCHANGED << vars, left, ahead, inserted, assigned >>

Commit(w) ==
    /\ Committing(w) /\ ~Flushing(w)
    /\ triggers' = triggers \cup inserted[w]
    /\ deliveries' = deliveries \cup {Key(t) : t \in inserted[w]}
    /\ alerts' = [a \in AlertIds |->
                     IF a \in locked[w] THEN [alerts[a] EXCEPT !.last_evaluated_at = "set"]
                     ELSE alerts[a]]
    /\ stamped' = [a \in (DOMAIN stamped) \cup locked[w] |->
                      IF a \in locked[w] THEN Rule(found[w][a]) ELSE stamped[a]]
    /\ EndCycle(w)
    /\ EndLoop(w)
    /\ UNCHANGED << apiLocals, weatherVars, faults >>

Fail(w) == CycleFails(w) /\ EndLoop(w)

\* Requests that need not wait, ingestion, midnight.
Others ==
    /\ \/ /\ ApiNext /\ UNCHANGED evalVars
          /\ \A r \in Requests : RequestWaits(r) => request'[r] # "none"
       \/ \E f \in Forecasts : Ingest(f)
       \/ Midnight
    /\ UNCHANGED loopVars

LoopInit ==
    /\ Init
    /\ left = [w \in Workers |-> << >>]
    /\ ahead = [w \in Workers |-> << >>]
    /\ inserted = [w \in Workers |-> {}]
    /\ assigned = [w \in Workers |-> {}]
    /\ locked = [w \in Workers |-> {}]

LoopNext ==
    \/ \E w \in Workers :
           \/ Query(w) \/ Insert(w) \/ Stamp(w)
           \/ WriteStamp(w) \/ Commit(w) \/ Fail(w)
    \/ Others

LoopSpec == LoopInit /\ [][LoopNext]_loopCycleVars

-----------------------------------------------------------------------------
(* Properties.                                                             *)

\* Cycles never wait for each other in a circle, of two or of more, though each
\* locks many rows in its own transaction: all follow the order of the queries,
\* even when they loaded different alerts (jobs.py:106, 129 and 154-169).
CyclesDoNotDeadlock ==
    \A circle \in (SUBSET Workers) \ {{}} :
        \E w \in circle : \A v \in circle : ~WaitsFor(w, v)

\* The statements of a cycle amount to the one step of Evaluation.tla, which
\* writes what matches and is not in the table at the commit: the break, the
\* conflict target, the autoflush and the locks of a concurrent cycle leave no
\* other outcome (jobs.py:154-169). This is Spec; the steps that change none of
\* its variables come first, as most do.
ImplementsEvaluation == Init /\ [][UNCHANGED vars \/ Next]_vars

=============================================================================
