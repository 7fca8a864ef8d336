------------------------------ MODULE AlertApi ------------------------------
(***************************************************************************)
(* The write endpoints of app/modules/alerts/api.py.  PATCH and DELETE     *)
(* load the alert in one statement and commit in another, so requests      *)
(* interleave between the two; each works on the row it loaded and the     *)
(* flush writes only what it changed.  Every commit is subject to the      *)
(* constraints of the table and to the width of its integers.              *)
(*                                                                         *)
(* Requests that end in a 404 or a 422 before their commit change nothing  *)
(* and are left out, and so are the reads.  The alert's name decides       *)
(* nothing and is left out of the row.                                     *)
(***************************************************************************)
EXTENDS AlertRules, Orm, Sequences, FiniteSets

CONSTANTS
    Requests,    \* API requests being served
    Creates,     \* payloads of POST /alerts: records of the rule's columns
    Patches,     \* payloads of PATCH /alerts/{id}: records of the columns sent
    IntMax,      \* the largest INTEGER of the database
    MaxAlerts    \* bound: alerts created

ASSUME ApiAssumption ==
    /\ MaxAlerts \in Nat
    /\ IntMax \in Nat

\* The columns a PATCH may send, and the values that each of them takes besides
\* null.
Sendable ==
    [ metric |-> Metrics, operator |-> Operators, threshold_value |-> Int,
      lookahead_days |-> Int, is_active |-> BOOLEAN ]

\* What the schemas AlertCreate and AlertUpdate let through, bounds apart.
ASSUME PayloadAssumption ==
    /\ NULL \notin Metrics \cup Operators \cup {"set"} \cup Int \cup BOOLEAN \cup Patches
    /\ \A new \in Creates :
           /\ new.field_id # NULL
           /\ new.metric \in Metrics
           /\ new.operator \in Operators
           /\ new.threshold_value \in Int
           /\ new.lookahead_days \in Int
    /\ \A sent \in Patches :
           /\ DOMAIN sent \subseteq DOMAIN Sendable
           /\ \A c \in DOMAIN sent : sent[c] \in Sendable[c] \cup {NULL}

VARIABLES
    alerts,      \* the table, a sequence: ids are positions
    request,     \* what each request is doing
    target,      \* the alert it loaded,
    loaded,      \* as it was in the table then,
    payload      \* and the columns a PATCH sent

apiLocals == << request, target, loaded, payload >>
apiVars == << alerts, apiLocals >>

AlertIds == DOMAIN alerts

-----------------------------------------------------------------------------
(* Constraints and flushes.                                                *)

\* Mutant: the index is not unique.
CollidesNever(table, id) == FALSE

\* uq_alerts_active_rule refuses row id of the table.
Collides(table, id) ==
    /\ IsLive(table[id])
    /\ \E other \in (DOMAIN table) \ {id} :
           IsLive(table[other]) /\ Rule(table[other]) = Rule(table[id])

\* The driver can send the threshold; a lookahead has bounds of its own.
FitsInteger(alert) ==
    alert.threshold_value # NULL => alert.threshold_value \in -IntMax - 1..IntMax

\* The commit of a table in which only row id is new or changed.
Accepts(table, id) ==
    FitsInteger(table[id]) /\ AlertChecks(table[id]) /\ ~Collides(table, id)

\* The row after the UPDATE of an object loaded as `read` and assigned `new`.
Flushed(current, read, new) ==
    [ field_id |-> Column(current.field_id, read.field_id, new.field_id),
      metric |-> Column(current.metric, read.metric, new.metric),
      operator |-> Column(current.operator, read.operator, new.operator),
      threshold_value |->
          Column(current.threshold_value, read.threshold_value, new.threshold_value),
      lookahead_days |-> Column(current.lookahead_days, read.lookahead_days, new.lookahead_days),
      is_active |-> Column(current.is_active, read.is_active, new.is_active),
      deleted_at |-> Column(current.deleted_at, read.deleted_at, new.deleted_at),
      last_evaluated_at |->
          Column(current.last_evaluated_at, read.last_evaluated_at, new.last_evaluated_at) ]

\* setattr for each column the payload sent.
Patched(alert, sent) ==
    [c \in DOMAIN alert |-> IF c \in DOMAIN sent THEN sent[c] ELSE alert[c]]

\* The schema AlertUpdate: bounds on what is sent, nulls let through.
SchemaAccepts(sent) ==
    /\ "lookahead_days" \in DOMAIN sent =>
           sent.lookahead_days = NULL \/ LookaheadIsValid(sent.lookahead_days)
    /\ {"metric", "threshold_value"} \subseteq DOMAIN sent =>
           \/ sent.metric = NULL
           \/ sent.threshold_value = NULL
           \/ ThresholdIsValid(sent.metric, sent.threshold_value)

-----------------------------------------------------------------------------
(* Requests.                                                               *)

\* POST /alerts. The field is only checked for ownership, so one step.
Create(r) ==
    /\ request[r] = "none"
    /\ Len(alerts) < MaxAlerts
    /\ \E new \in Creates :
           LET row == [ field_id |-> new.field_id, metric |-> new.metric,
                        operator |-> new.operator, threshold_value |-> new.threshold_value,
                        lookahead_days |-> new.lookahead_days, is_active |-> TRUE,
                        deleted_at |-> NULL, last_evaluated_at |-> NULL ]
               table == Append(alerts, row)
           IN  /\ ThresholdIsValid(new.metric, new.threshold_value)
               /\ LookaheadIsValid(new.lookahead_days)
               /\ Accepts(table, Len(table))
               /\ alerts' = table
    /\ UNCHANGED apiLocals

\* require_alert_for_user finds the alert: it is not deleted.
Load(r, id) ==
    /\ request[r] = "none"
    /\ alerts[id].deleted_at = NULL
    /\ target' = [target EXCEPT ![r] = id]
    /\ loaded' = [loaded EXCEPT ![r] = alerts[id]]
    /\ UNCHANGED alerts

\* PATCH loads the alert, applies what was sent and validates the result; the
\* test of deleted_at is made on the object just loaded.
LoadForPatch(r, id) ==
    /\ Load(r, id)
    /\ \E sent \in Patches :
           LET merged == Patched(alerts[id], sent) IN
           /\ SchemaAccepts(sent)
           /\ merged.deleted_at = NULL
           /\ ThresholdIsValid(merged.metric, merged.threshold_value)
           /\ payload' = [payload EXCEPT ![r] = sent]
    /\ request' = [request EXCEPT ![r] = "patch"]

LoadForDelete(r, id) ==
    /\ Load(r, id)
    /\ request' = [request EXCEPT ![r] = "delete"]
    /\ UNCHANGED payload

\* Mutant: DELETE forgets to deactivate.
AssignedKeepingActive(r) ==
    IF request[r] = "patch"
    THEN [Patched(loaded[r], payload[r]) EXCEPT !.last_evaluated_at = NULL]
    ELSE [loaded[r] EXCEPT !.deleted_at = "set"]

\* What the handler has assigned when it commits.
AssignedBy(r) ==
    IF request[r] = "patch"
    THEN [Patched(loaded[r], payload[r]) EXCEPT !.last_evaluated_at = NULL]
    ELSE [loaded[r] EXCEPT !.is_active = FALSE, !.deleted_at = "set"]

\* The table as request r would commit it.
TableOf(r) ==
    [alerts EXCEPT ![target[r]] = Flushed(@, loaded[r], AssignedBy(r))]

\* Mutant: a request answers without closing its session.
AnsweredKeepingSession(r) ==
    /\ request' = [request EXCEPT ![r] = "none"]
    /\ UNCHANGED << target, loaded, payload >>

\* The request is answered and its session is gone.
Answered(r) ==
    /\ request' = [request EXCEPT ![r] = "none"]
    /\ target' = [target EXCEPT ![r] = 0]
    /\ loaded' = [loaded EXCEPT ![r] = NULL]
    /\ payload' = [payload EXCEPT ![r] = NULL]

CommitRequest(r) ==
    /\ request[r] # "none"
    /\ Accepts(TableOf(r), target[r])
    /\ alerts' = TableOf(r)
    /\ Answered(r)

\* Rollback, and a 409 for an IntegrityError or a 500 for the rest.
RefuseRequest(r) ==
    /\ request[r] # "none"
    /\ ~Accepts(TableOf(r), target[r])
    /\ Answered(r)
    /\ UNCHANGED alerts

ApiInit ==
    /\ alerts = << >>
    /\ request = [r \in Requests |-> "none"]
    /\ target = [r \in Requests |-> 0]
    /\ loaded = [r \in Requests |-> NULL]
    /\ payload = [r \in Requests |-> NULL]

ApiNext ==
    \E r \in Requests :
        \/ Create(r)
        \/ \E id \in AlertIds : LoadForPatch(r, id) \/ LoadForDelete(r, id)
        \/ CommitRequest(r)
        \/ RefuseRequest(r)

ApiSpec == ApiInit /\ [][ApiNext]_apiVars

-----------------------------------------------------------------------------
(* Properties.                                                             *)

AlertRow ==
    [ field_id : {c.field_id : c \in Creates},
      metric : Metrics,
      operator : Operators,
      threshold_value : -IntMax - 1..IntMax,
      lookahead_days : 1..30,
      is_active : BOOLEAN,
      deleted_at : {NULL, "set"},
      last_evaluated_at : {NULL, "set"} ]

\* Type invariant: the locals of a request are there while it is served.
ApiTypeOK ==
    /\ alerts \in Seq(AlertRow)
    /\ request \in [Requests -> {"none", "patch", "delete"}]
    /\ \A r \in Requests :
           /\ request[r] = "none" => target[r] = 0 /\ loaded[r] = NULL
           /\ request[r] # "none" => target[r] \in AlertIds
           /\ request[r] = "patch" <=> payload[r] # NULL

\* No two live alerts have the same rule, whatever requests create, edit,
\* reactivate and delete them concurrently (alerts/models.py:51-61).
LiveRulesDiffer ==
    \A a, b \in AlertIds :
        IsLive(alerts[a]) /\ IsLive(alerts[b]) /\ Rule(alerts[a]) = Rule(alerts[b]) => a = b

\* A PATCH that nobody disturbed fails only for a rule that is taken, an
\* explicit null, which the schema lets through, or a threshold beyond the
\* column: whatever else the table refuses, the validators have refused before
\* (alerts/schemas.py:24-38, validation.py:22-33, models.py:36-50).
RefusedForAReason ==
    \A r \in Requests :
        request[r] = "patch" /\ alerts[target[r]] = loaded[r] =>
            \/ Accepts(TableOf(r), target[r])
            \/ Collides(TableOf(r), target[r])
            \/ \E c \in DOMAIN payload[r] : payload[r][c] = NULL
            \/ ("threshold_value" \in DOMAIN payload[r] /\ ~FitsInteger(payload[r]))

\* The DELETE of an alert that was active when loaded is never refused, whatever
\* other requests did to it meanwhile (alerts/api.py:103-108).
DeleteOfActiveSucceeds ==
    \A r \in Requests :
        request[r] = "delete" /\ loaded[r].is_active => Accepts(TableOf(r), target[r])

\* A delete is final: nothing restores the alert, and nothing reactivates it,
\* though a PATCH may have loaded it before and set is_active (alerts/api.py:79
\* tests a copy).
DeletedIsFinal ==
    [][\A a \in AlertIds : alerts[a].deleted_at # NULL =>
           alerts'[a].deleted_at # NULL /\ ~alerts'[a].is_active]_apiVars

\* A PATCH that commits does to the row it finds by then what it would have
\* done alone, the validation of the result included: two of them, each valid on
\* the row it loaded, do not combine into a threshold that does not fit, and
\* none takes back what another changed. Only a sent value that the loaded row
\* already had is not written (alerts/api.py:74-88, models.py:37-46).
PatchIsAsIfAlone ==
    [][\A r \in Requests :
           LET id == target[r]
               alone == Patched(alerts[id], payload[r])
           IN  request[r] = "patch" /\ request'[r] = "none" /\ Accepts(TableOf(r), id) =>
                   /\ ThresholdIsValid(alerts'[id].metric, alerts'[id].threshold_value)
                   /\ \A c \in DOMAIN alone \ {"last_evaluated_at"} :
                          \/ alerts'[id][c] = alone[c]
                          \/ c \in DOMAIN payload[r] /\ payload[r][c] = loaded[r][c]]_apiVars

=============================================================================
