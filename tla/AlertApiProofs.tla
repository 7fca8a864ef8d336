--------------------------- MODULE AlertApiProofs ---------------------------
(***************************************************************************)
(* Theorems about AlertApi.tla, for any requests, payloads and widths.     *)
(*                                                                         *)
(* The invariant has three parts: what a session loaded was a row and was  *)
(* not deleted then, and a PATCH's payload is one that the schema and the  *)
(* validator let through (SessionsOK); every stored row satisfies the      *)
(* CHECKs (StoredChecked); no two live rows collide.  Nothing relates a    *)
(* loaded row to the stored one: between load and commit any other request *)
(* may change it, and the theorems are about what the flush and the        *)
(* table's constraints make of that.                                       *)
(***************************************************************************)
EXTENDS AlertApi, SequenceTheorems, TLAPS

-----------------------------------------------------------------------------
(* Rows.                                                                   *)

\* A row as a handler may assign it: any column a PATCH may send may be null.
AssignedRow ==
    [ field_id : {c.field_id : c \in Creates},
      metric : Metrics \cup {NULL},
      operator : Operators \cup {NULL},
      threshold_value : Int \cup {NULL},
      lookahead_days : Int \cup {NULL},
      is_active : BOOLEAN \cup {NULL},
      deleted_at : {NULL, "set"},
      last_evaluated_at : {NULL, "set"} ]

Columns ==
    { "field_id", "metric", "operator", "threshold_value", "lookahead_days", "is_active",
      "deleted_at", "last_evaluated_at" }

\* A row has the columns of the table, and is one that can be assigned.
LEMMA RowColumns ==
    ASSUME NEW row \in AlertRow
    PROVE  row \in AssignedRow /\ DOMAIN row = Columns
BY ApiAssumption DEF AlertRow, AssignedRow, Columns

\* A row that was assigned and passes the column's width and the CHECKs is one
\* the table can hold.
LEMMA CheckedRow ==
    ASSUME NEW row \in AssignedRow, FitsInteger(row), AlertChecks(row)
    PROVE  row \in AlertRow
<1>1. DOMAIN row = Columns
    BY DEF AssignedRow, Columns
<1>2. \A c \in {"field_id", "metric", "operator", "threshold_value", "lookahead_days",
                "is_active"} : row[c] # NULL
    BY <1>1 DEF AlertChecks, Columns
<1> QED
    BY <1>2 DEF AssignedRow, AlertRow, AlertChecks, FitsInteger, LookaheadIsValid

\* A threshold that the table checked is one that the API would validate.
LEMMA CheckedThreshold ==
    ASSUME NEW row \in AlertRow, AlertChecks(row)
    PROVE  ThresholdIsValid(row.metric, row.threshold_value)
<1>1. row.metric \in Metrics /\ row.threshold_value \in Int /\ row.threshold_value # NULL
    BY PayloadAssumption, ApiAssumption DEF AlertRow
<1> QED
    BY <1>1
        DEF AlertChecks, ThresholdChecks, ThresholdIsValid, ProbabilityMetrics, NonNegativeMetrics

\* What a PATCH sends, it sends to columns that may be null, never to the
\* owner's field or to a timestamp.
LEMMA PatchedRow ==
    ASSUME NEW row \in AlertRow, NEW sent \in Patches
    PROVE  /\ Patched(row, sent) \in AssignedRow
           /\ Patched(row, sent).field_id = row.field_id
           /\ Patched(row, sent).deleted_at = row.deleted_at
           /\ Patched(row, sent).last_evaluated_at = row.last_evaluated_at
           /\ \A c \in Columns :
                  Patched(row, sent)[c] = IF c \in DOMAIN sent THEN sent[c] ELSE row[c]
<1>1. DOMAIN row = Columns /\ row \in AssignedRow
    BY RowColumns
<1>2. DOMAIN sent \subseteq {"metric", "operator", "threshold_value", "lookahead_days",
                             "is_active"}
    BY PayloadAssumption DEF Sendable
<1>3. \A c \in DOMAIN sent : sent[c] \in Sendable[c] \cup {NULL}
    BY PayloadAssumption
<1>4. Patched(row, sent) = [c \in Columns |-> IF c \in DOMAIN sent THEN sent[c] ELSE row[c]]
    BY <1>1 DEF Patched
<1>5. /\ Patched(row, sent).metric \in Metrics \cup {NULL}
      /\ Patched(row, sent).operator \in Operators \cup {NULL}
      /\ Patched(row, sent).threshold_value \in Int \cup {NULL}
      /\ Patched(row, sent).lookahead_days \in Int \cup {NULL}
      /\ Patched(row, sent).is_active \in BOOLEAN \cup {NULL}
    BY <1>1, <1>3, <1>4 DEF Columns, AssignedRow, Sendable
<1>6. /\ Patched(row, sent).field_id = row.field_id
      /\ Patched(row, sent).deleted_at = row.deleted_at
      /\ Patched(row, sent).last_evaluated_at = row.last_evaluated_at
    BY <1>2, <1>4 DEF Columns
<1>7. Patched(row, sent) \in AssignedRow
    BY <1>1, <1>4, <1>5, <1>6 DEF Columns, AssignedRow
<1> QED
    BY <1>4, <1>6, <1>7

\* The flush of rows leaves a row; each column is the assigned value where that
\* differs from the loaded one.
LEMMA FlushedRow ==
    ASSUME NEW current \in AlertRow, NEW read \in AlertRow, NEW new \in AssignedRow
    PROVE  /\ Flushed(current, read, new) \in AssignedRow
           /\ \A c \in Columns :
                  Flushed(current, read, new)[c] = Column(current[c], read[c], new[c])
<1>1. current \in AssignedRow
    BY RowColumns
<1> QED
    BY <1>1 DEF Flushed, Column, AssignedRow, Columns

-----------------------------------------------------------------------------
(* The invariant.                                                          *)

\* Locals are indexed by requests. What a session loaded was not deleted then,
\* and the result of its PATCH has been validated.
SessionsOK ==
    /\ DOMAIN target = Requests /\ DOMAIN loaded = Requests /\ DOMAIN payload = Requests
    /\ \A r \in Requests :
           /\ request[r] # "none" => loaded[r] \in AlertRow /\ loaded[r].deleted_at = NULL
           /\ request[r] = "patch" =>
                  /\ payload[r] \in Patches
                  /\ SchemaAccepts(payload[r])
                  /\ ThresholdIsValid(Patched(loaded[r], payload[r]).metric,
                                      Patched(loaded[r], payload[r]).threshold_value)

\* Every stored row satisfies the CHECKs.
StoredChecked == \A a \in AlertIds : AlertChecks(alerts[a])

ApiInv == ApiTypeOK /\ SessionsOK /\ StoredChecked /\ LiveRulesDiffer

\* Ids are positions.
LEMMA Ids ==
    ASSUME ApiTypeOK
    PROVE  /\ Len(alerts) \in Nat
           /\ AlertIds = 1..Len(alerts)
           /\ \A a \in AlertIds : alerts[a] \in AlertRow
BY LenProperties, ElementOfSeq DEF ApiTypeOK, AlertIds

\* What a handler has assigned to the row it loaded, column by column.
LEMMA AssignedColumns ==
    ASSUME ApiInv, NEW r \in Requests, request[r] # "none"
    PROVE  /\ AssignedBy(r) \in AssignedRow
           /\ AssignedBy(r).field_id = loaded[r].field_id
           /\ request[r] = "patch" =>
                  /\ AssignedBy(r).deleted_at = loaded[r].deleted_at
                  /\ AssignedBy(r).last_evaluated_at = NULL
                  /\ \A c \in Columns \ {"last_evaluated_at"} :
                         AssignedBy(r)[c] = IF c \in DOMAIN payload[r] THEN payload[r][c]
                                            ELSE loaded[r][c]
           /\ request[r] = "delete" =>
                  /\ AssignedBy(r).is_active = FALSE
                  /\ AssignedBy(r).deleted_at = "set"
                  /\ \A c \in Columns \ {"is_active", "deleted_at"} :
                         AssignedBy(r)[c] = loaded[r][c]
<1>1. loaded[r] \in AlertRow /\ loaded[r] \in AssignedRow /\ DOMAIN loaded[r] = Columns
    BY RowColumns DEF ApiInv, SessionsOK
<1>2. CASE request[r] = "patch"
    <2>1. payload[r] \in Patches
        BY <1>2 DEF ApiInv, SessionsOK
    <2> DEFINE p == Patched(loaded[r], payload[r])
    <2>2. /\ p \in AssignedRow
          /\ p.field_id = loaded[r].field_id
          /\ p.deleted_at = loaded[r].deleted_at
          /\ \A c \in Columns :
                 p[c] = IF c \in DOMAIN payload[r] THEN payload[r][c] ELSE loaded[r][c]
        BY <1>1, <2>1, PatchedRow
    <2>3. AssignedBy(r) = [p EXCEPT !.last_evaluated_at = NULL]
        BY <1>2 DEF AssignedBy
    <2> HIDE DEF p
    <2>4. DOMAIN p = Columns
        BY <2>2 DEF AssignedRow, Columns
    <2>5. AssignedBy(r) \in AssignedRow
        BY <2>2, <2>3 DEF AssignedRow
    <2>6. \A c \in Columns : AssignedBy(r)[c] = IF c = "last_evaluated_at" THEN NULL ELSE p[c]
        BY <2>3, <2>4
    <2> QED
        BY <1>2, <2>2, <2>5, <2>6 DEF Columns
<1>3. CASE request[r] = "delete"
    <2>1. AssignedBy(r) = [loaded[r] EXCEPT !.is_active = FALSE, !.deleted_at = "set"]
        BY <1>3 DEF AssignedBy
    <2> QED
        BY <1>1, <1>3, <2>1 DEF AssignedRow, Columns
<1> QED
    BY <1>2, <1>3 DEF ApiInv, ApiTypeOK

\* The table as a request would commit it: one row changes, column by column, and
\* what is not to be stored is refused.
LEMMA CommittedTable ==
    ASSUME ApiInv, NEW r \in Requests, request[r] # "none"
    PROVE  /\ target[r] \in AlertIds
           /\ DOMAIN TableOf(r) = AlertIds
           /\ \A a \in AlertIds \ {target[r]} : TableOf(r)[a] = alerts[a]
           /\ TableOf(r)[target[r]] \in AssignedRow
           /\ \A c \in Columns :
                  TableOf(r)[target[r]][c] =
                      Column(alerts[target[r]][c], loaded[r][c], AssignedBy(r)[c])
           /\ Accepts(TableOf(r), target[r]) =>
                  /\ TableOf(r)[target[r]] \in AlertRow
                  /\ TableOf(r) \in Seq(AlertRow)
<1>1. /\ target[r] \in AlertIds /\ loaded[r] \in AlertRow
      /\ alerts[target[r]] \in AlertRow /\ alerts \in Seq(AlertRow)
    BY Ids DEF ApiInv, ApiTypeOK, SessionsOK
<1>2. AssignedBy(r) \in AssignedRow
    BY AssignedColumns
<1> DEFINE row == Flushed(alerts[target[r]], loaded[r], AssignedBy(r))
<1>3. /\ row \in AssignedRow
      /\ \A c \in Columns :
             row[c] = Column(alerts[target[r]][c], loaded[r][c], AssignedBy(r)[c])
    BY <1>1, <1>2, FlushedRow
<1>4. TableOf(r) = [alerts EXCEPT ![target[r]] = row]
    BY DEF TableOf
<1> HIDE DEF row
<1>5. /\ DOMAIN TableOf(r) = AlertIds
      /\ \A a \in AlertIds \ {target[r]} : TableOf(r)[a] = alerts[a]
      /\ TableOf(r)[target[r]] = row
    BY <1>1, <1>4 DEF AlertIds
<1>6. ASSUME Accepts(TableOf(r), target[r])
      PROVE  row \in AlertRow /\ TableOf(r) \in Seq(AlertRow)
    <2>1. row \in AlertRow
        BY <1>3, <1>5, <1>6, CheckedRow DEF Accepts
    <2>2. target[r] \in 1..Len(alerts)
        BY <1>1, Ids DEF ApiInv
    <2>3. [alerts EXCEPT ![target[r]] = row] \in Seq(AlertRow)
        BY <1>1, <2>1, <2>2, ExceptSeq
    <2> QED
        BY <1>4, <2>1, <2>3
<1> QED
    BY <1>1, <1>3, <1>5, <1>6

\* At first there are no alerts and no sessions.
LEMMA ApiInitInv == ApiInit => ApiInv
<1> SUFFICES ASSUME ApiInit PROVE ApiInv
    OBVIOUS
<1>1. alerts \in Seq(AlertRow) /\ AlertIds = {}
    BY DEF ApiInit, AlertIds
<1> QED
    BY <1>1 DEF ApiInit, ApiInv, ApiTypeOK, SessionsOK, StoredChecked, LiveRulesDiffer

\* A request that is answered leaves the sessions of the others as they were.
LEMMA AnsweredSessions ==
    ASSUME ApiTypeOK, SessionsOK, NEW r \in Requests, Answered(r),
           alerts' \in Seq(AlertRow), AlertIds' = AlertIds
    PROVE  ApiTypeOK' /\ SessionsOK'
<1>1. /\ request' = [request EXCEPT ![r] = "none"]
      /\ target' = [target EXCEPT ![r] = 0]
      /\ loaded' = [loaded EXCEPT ![r] = NULL]
      /\ payload' = [payload EXCEPT ![r] = NULL]
    BY DEF Answered
<1>2. /\ request \in [Requests -> {"none", "patch", "delete"}]
      /\ DOMAIN target = Requests /\ DOMAIN loaded = Requests /\ DOMAIN payload = Requests
    BY DEF ApiTypeOK, SessionsOK
<1>3. /\ request'[r] = "none" /\ target'[r] = 0 /\ loaded'[r] = NULL /\ payload'[r] = NULL
      /\ request' \in [Requests -> {"none", "patch", "delete"}]
      /\ DOMAIN target' = Requests /\ DOMAIN loaded' = Requests /\ DOMAIN payload' = Requests
      /\ \A q \in Requests \ {r} : /\ request'[q] = request[q] /\ target'[q] = target[q]
                                   /\ loaded'[q] = loaded[q] /\ payload'[q] = payload[q]
    BY <1>1, <1>2
<1>4. ApiTypeOK'
    BY <1>3 DEF ApiTypeOK
<1>5. SessionsOK'
    BY <1>3 DEF SessionsOK, SchemaAccepts, Patched
<1> QED
    BY <1>4, <1>5

\* A table that is the old one, but for a row that the commit accepted, is as
\* good as the old one.
LEMMA AcceptedTable ==
    ASSUME ApiInv, NEW id \in AlertIds', Accepts(alerts', id),
           AlertIds \subseteq AlertIds', AlertIds' \subseteq AlertIds \cup {id},
           \A a \in AlertIds \ {id} : alerts'[a] = alerts[a]
    PROVE  StoredChecked' /\ LiveRulesDiffer'
<1>1. AlertChecks(alerts'[id]) /\ ~Collides(alerts', id)
    BY DEF Accepts
<1>2. StoredChecked'
    <2> SUFFICES ASSUME NEW a \in AlertIds' PROVE AlertChecks(alerts'[a])
        BY DEF StoredChecked, AlertChecks, LookaheadIsValid, ThresholdChecks
    <2> QED
        BY <1>1 DEF ApiInv, StoredChecked
<1>3. LiveRulesDiffer'
    <2> SUFFICES ASSUME NEW a \in AlertIds', NEW b \in AlertIds',
                        IsLive(alerts'[a]), IsLive(alerts'[b]),
                        Rule(alerts'[a]) = Rule(alerts'[b])
                 PROVE  a = b
        BY DEF LiveRulesDiffer, IsLive, Rule
    <2>1. ~(a = id /\ b # id) /\ ~(b = id /\ a # id)
        BY <1>1 DEF Collides, AlertIds
    <2>2. CASE a # id /\ b # id
        BY <2>2 DEF ApiInv, LiveRulesDiffer
    <2> QED
        BY <2>1, <2>2
<1> QED
    BY <1>2, <1>3

\* The session that a load opens. What PATCH computes is validated before.
LEMMA LoadSessions ==
    ASSUME ApiInv, NEW r \in Requests, NEW id \in AlertIds, Load(r, id),
           NEW kind \in {"patch", "delete"}, request' = [request EXCEPT ![r] = kind],
           kind = "delete" => payload' = payload,
           kind = "patch" =>
               \E sent \in Patches :
                   /\ SchemaAccepts(sent)
                   /\ ThresholdIsValid(Patched(alerts[id], sent).metric,
                                       Patched(alerts[id], sent).threshold_value)
                   /\ payload' = [payload EXCEPT ![r] = sent]
    PROVE  ApiInv'
<1>1. /\ request[r] = "none" /\ alerts[id].deleted_at = NULL /\ alerts' = alerts
      /\ target' = [target EXCEPT ![r] = id] /\ loaded' = [loaded EXCEPT ![r] = alerts[id]]
    BY DEF Load
<1>2. /\ request \in [Requests -> {"none", "patch", "delete"}]
      /\ DOMAIN target = Requests /\ DOMAIN loaded = Requests /\ DOMAIN payload = Requests
    BY DEF ApiInv, ApiTypeOK, SessionsOK
<1>3. /\ request'[r] = kind /\ target'[r] = id /\ loaded'[r] = alerts[id]
      /\ request' \in [Requests -> {"none", "patch", "delete"}]
      /\ DOMAIN target' = Requests /\ DOMAIN loaded' = Requests /\ DOMAIN payload' = Requests
      /\ \A q \in Requests \ {r} : /\ request'[q] = request[q] /\ target'[q] = target[q]
                                   /\ loaded'[q] = loaded[q] /\ payload'[q] = payload[q]
    BY <1>1, <1>2
<1>4. kind = "delete" => payload'[r] = NULL
    BY <1>1 DEF ApiInv, ApiTypeOK
<1>5. kind = "patch" =>
          /\ payload'[r] \in Patches /\ payload'[r] # NULL
          /\ SchemaAccepts(payload'[r])
          /\ ThresholdIsValid(Patched(loaded'[r], payload'[r]).metric,
                              Patched(loaded'[r], payload'[r]).threshold_value)
    BY <1>2, <1>3, PayloadAssumption
<1>6. AlertIds' = AlertIds /\ alerts[id] \in AlertRow
    BY <1>1, Ids DEF ApiInv, AlertIds
<1>7. ApiTypeOK'
    <2>1. /\ request'[r] = "none" => target'[r] = 0 /\ loaded'[r] = NULL
          /\ request'[r] # "none" => target'[r] \in AlertIds
          /\ request'[r] = "patch" <=> payload'[r] # NULL
        BY <1>3, <1>4, <1>5
    <2> QED
        BY <1>1, <1>3, <1>6, <2>1 DEF ApiInv, ApiTypeOK
<1>8. SessionsOK'
    <2> SUFFICES ASSUME NEW q \in Requests
                 PROVE  /\ request'[q] # "none" =>
                               loaded'[q] \in AlertRow /\ loaded'[q].deleted_at = NULL
                        /\ request'[q] = "patch" =>
                               /\ payload'[q] \in Patches
                               /\ SchemaAccepts(payload'[q])
                               /\ ThresholdIsValid(Patched(loaded'[q], payload'[q]).metric,
                                                   Patched(loaded'[q], payload'[q]).threshold_value)
        BY <1>3 DEF SessionsOK, SchemaAccepts, Patched
    <2> QED
        BY <1>1, <1>3, <1>5, <1>6 DEF ApiInv, SessionsOK
<1>9. StoredChecked' /\ LiveRulesDiffer'
    BY <1>1 DEF ApiInv, StoredChecked, LiveRulesDiffer, AlertIds, AlertChecks, LookaheadIsValid,
                ThresholdChecks, IsLive, Rule
<1> QED
    BY <1>7, <1>8, <1>9 DEF ApiInv

\* POST appends a row that passed the constraints.
LEMMA CreateStep ==
    ASSUME ApiInv, NEW r \in Requests, Create(r)
    PROVE  ApiInv'
<1>1. PICK new \in Creates :
          LET row == [ field_id |-> new.field_id, metric |-> new.metric,
                       operator |-> new.operator, threshold_value |-> new.threshold_value,
                       lookahead_days |-> new.lookahead_days, is_active |-> TRUE,
                       deleted_at |-> NULL, last_evaluated_at |-> NULL ]
          IN  /\ Accepts(Append(alerts, row), Len(Append(alerts, row)))
              /\ alerts' = Append(alerts, row)
    BY DEF Create
<1> DEFINE row == [ field_id |-> new.field_id, metric |-> new.metric,
                    operator |-> new.operator, threshold_value |-> new.threshold_value,
                    lookahead_days |-> new.lookahead_days, is_active |-> TRUE,
                    deleted_at |-> NULL, last_evaluated_at |-> NULL ]
<1>2. row \in AssignedRow
    BY PayloadAssumption DEF AssignedRow
<1>3. alerts' = Append(alerts, row) /\ Accepts(Append(alerts, row), Len(Append(alerts, row)))
    BY <1>1
<1> HIDE DEF row
<1>4. alerts \in Seq(AlertRow) /\ alerts \in Seq(AssignedRow \cup AlertRow)
    BY DEF ApiInv, ApiTypeOK
<1>5. /\ Len(alerts') = Len(alerts) + 1
      /\ \A a \in 1..Len(alerts) : alerts'[a] = alerts[a]
      /\ alerts'[Len(alerts) + 1] = row
    BY <1>2, <1>3, <1>4, AppendProperties
<1>6. row \in AlertRow
    BY <1>2, <1>3, <1>5, CheckedRow DEF Accepts
<1>7. alerts' \in Seq(AlertRow)
    BY <1>3, <1>4, <1>6, AppendProperties
<1>8. AlertIds' = 1..Len(alerts) + 1 /\ AlertIds = 1..Len(alerts) /\ Len(alerts) \in Nat
    BY <1>4, <1>5, <1>7, LenProperties DEF AlertIds
<1>9. UNCHANGED apiLocals
    BY DEF Create
<1>10. ApiTypeOK'
    BY <1>7, <1>8, <1>9 DEF ApiInv, ApiTypeOK, apiLocals
<1>11. SessionsOK'
    BY <1>9 DEF ApiInv, SessionsOK, apiLocals, SchemaAccepts, Patched
<1>12. StoredChecked' /\ LiveRulesDiffer'
    <2>1. Len(alerts) + 1 \in AlertIds' /\ Accepts(alerts', Len(alerts) + 1)
        BY <1>3, <1>5, <1>8
    <2> QED
        BY <1>5, <1>8, <2>1, AcceptedTable
<1> QED
    BY <1>10, <1>11, <1>12 DEF ApiInv

\* A commit that the table accepts.
LEMMA CommitStep ==
    ASSUME ApiInv, NEW r \in Requests, CommitRequest(r)
    PROVE  ApiInv'
<1>1. /\ request[r] # "none" /\ Accepts(TableOf(r), target[r])
      /\ alerts' = TableOf(r) /\ Answered(r)
    BY DEF CommitRequest
<1>2. /\ alerts' \in Seq(AlertRow) /\ AlertIds' = AlertIds /\ target[r] \in AlertIds
      /\ \A a \in AlertIds \ {target[r]} : alerts'[a] = alerts[a]
    BY <1>1, CommittedTable DEF AlertIds
<1>3. ApiTypeOK' /\ SessionsOK'
    BY <1>1, <1>2, AnsweredSessions DEF ApiInv
<1>4. Accepts(alerts', target[r])
    BY <1>1
<1>5. StoredChecked' /\ LiveRulesDiffer'
    BY <1>2, <1>4, AcceptedTable
<1> QED
    BY <1>3, <1>5 DEF ApiInv

\* A table that stays as it is stays good.
LEMMA SameTable ==
    ASSUME ApiInv, alerts' = alerts
    PROVE  AlertIds' = AlertIds /\ StoredChecked' /\ LiveRulesDiffer'
BY DEF ApiInv, StoredChecked, LiveRulesDiffer, AlertIds, AlertChecks, LookaheadIsValid,
       ThresholdChecks, IsLive, Rule

\* The invariant is inductive: one step per action.
LEMMA ApiStep == ApiInv /\ [ApiNext]_apiVars => ApiInv'
<1> SUFFICES ASSUME ApiInv, [ApiNext]_apiVars PROVE ApiInv'
    OBVIOUS
<1>1. ASSUME NEW r \in Requests, Create(r) PROVE ApiInv'
    BY <1>1, CreateStep
<1>2. ASSUME NEW r \in Requests, NEW id \in AlertIds, LoadForPatch(r, id) PROVE ApiInv'
    <2>1. \E sent \in Patches :
              /\ SchemaAccepts(sent)
              /\ ThresholdIsValid(Patched(alerts[id], sent).metric,
                                  Patched(alerts[id], sent).threshold_value)
              /\ payload' = [payload EXCEPT ![r] = sent]
        BY <1>2 DEF LoadForPatch
    <2>2. Load(r, id) /\ request' = [request EXCEPT ![r] = "patch"]
        BY <1>2 DEF LoadForPatch
    <2> QED
        BY <2>1, <2>2, LoadSessions
<1>3. ASSUME NEW r \in Requests, NEW id \in AlertIds, LoadForDelete(r, id) PROVE ApiInv'
    BY <1>3, LoadSessions DEF LoadForDelete
<1>4. ASSUME NEW r \in Requests, CommitRequest(r) PROVE ApiInv'
    BY <1>4, CommitStep
<1>5. ASSUME NEW r \in Requests, RefuseRequest(r) PROVE ApiInv'
    <2>1. Answered(r) /\ alerts' = alerts
        BY <1>5 DEF RefuseRequest
    <2>2. ApiTypeOK' /\ SessionsOK'
        BY <2>1, SameTable, AnsweredSessions DEF ApiInv, ApiTypeOK
    <2> QED
        BY <2>1, <2>2, SameTable DEF ApiInv
<1>6. CASE UNCHANGED apiVars
    BY <1>6, SameTable
        DEF apiVars, apiLocals, ApiInv, ApiTypeOK, SessionsOK, SchemaAccepts, Patched
<1> QED
    BY <1>1, <1>2, <1>3, <1>4, <1>5, <1>6 DEF ApiNext

\* The inductive invariant holds throughout.
THEOREM ApiInvariant == ApiSpec => []ApiInv
<1>1. ApiInit => ApiInv
    BY ApiInitInv
<1>2. ApiInv /\ [ApiNext]_apiVars => ApiInv'
    BY ApiStep
<1> QED
    BY <1>1, <1>2, PTL DEF ApiSpec

-----------------------------------------------------------------------------
(* What the commits make of the rows.                                      *)

\* The DELETE writes the two columns it assigned, or leaves them as another
\* request made them; only the partial index could mind, and the row is not live.
LEMMA ActiveDelete == ApiInv => DeleteOfActiveSucceeds
<1> SUFFICES ASSUME ApiInv, NEW r \in Requests, request[r] = "delete", loaded[r].is_active
             PROVE  Accepts(TableOf(r), target[r])
    BY DEF DeleteOfActiveSucceeds
<1> DEFINE old == alerts[target[r]]
           row == TableOf(r)[target[r]]
<1>1. /\ target[r] \in AlertIds /\ row \in AssignedRow
      /\ \A c \in Columns : row[c] = Column(old[c], loaded[r][c], AssignedBy(r)[c])
    BY CommittedTable
<1>2. /\ loaded[r] \in AlertRow /\ loaded[r].deleted_at = NULL
      /\ AssignedBy(r).is_active = FALSE /\ AssignedBy(r).deleted_at = "set"
      /\ \A c \in Columns \ {"is_active", "deleted_at"} : AssignedBy(r)[c] = loaded[r][c]
    BY AssignedColumns DEF ApiInv, SessionsOK
<1>3. old \in AlertRow /\ AlertChecks(old) /\ DOMAIN old = Columns
    BY <1>1, Ids, RowColumns DEF ApiInv, StoredChecked
<1>4. NULL # "set"
    BY PayloadAssumption
<1> HIDE DEF old, row
<1>5. row.is_active = FALSE /\ row.deleted_at = "set"
    BY <1>1, <1>2, <1>4 DEF Column, Columns, AlertRow
<1>6. \A c \in Columns \ {"is_active", "deleted_at"} : row[c] = old[c]
    BY <1>1, <1>2 DEF Column
<1>7. FitsInteger(row)
    BY <1>3, <1>6 DEF FitsInteger, Columns, AlertRow
<1>8. AlertChecks(row)
    <2>1. DOMAIN row = Columns /\ NULL \notin BOOLEAN
        BY <1>1, PayloadAssumption DEF AssignedRow, Columns
    <2>2. \A c \in Columns \ {"deleted_at", "last_evaluated_at"} : row[c] # NULL
        BY <1>3, <1>5, <1>6, <2>1 DEF AlertChecks, Columns
    <2> QED
        BY <1>3, <1>5, <1>6, <2>1, <2>2 DEF AlertChecks, Columns
<1>9. ~Collides(TableOf(r), target[r])
    BY <1>4, <1>5 DEF row, Collides, IsLive
<1> QED
    BY <1>7, <1>8, <1>9 DEF row, Accepts

\* On a row that nobody changed, the PATCH writes what it validated.
LEMMA UndisturbedPatch == ApiInv => RefusedForAReason
<1> SUFFICES ASSUME ApiInv, NEW r \in Requests, request[r] = "patch",
                    alerts[target[r]] = loaded[r],
                    ~Collides(TableOf(r), target[r]),
                    \A c \in DOMAIN payload[r] : payload[r][c] # NULL,
                    "threshold_value" \in DOMAIN payload[r] => FitsInteger(payload[r])
             PROVE  Accepts(TableOf(r), target[r])
    BY DEF RefusedForAReason
<1> DEFINE old == loaded[r]
           row == TableOf(r)[target[r]]
<1>1. /\ target[r] \in AlertIds /\ row \in AssignedRow
      /\ \A c \in Columns : row[c] = Column(old[c], old[c], AssignedBy(r)[c])
    BY CommittedTable
<1>2. /\ old \in AlertRow /\ old.deleted_at = NULL
      /\ payload[r] \in Patches /\ SchemaAccepts(payload[r])
      /\ ThresholdIsValid(Patched(old, payload[r]).metric,
                          Patched(old, payload[r]).threshold_value)
      /\ AssignedBy(r).deleted_at = NULL
      /\ \A c \in Columns \ {"last_evaluated_at"} :
             AssignedBy(r)[c] = IF c \in DOMAIN payload[r] THEN payload[r][c] ELSE old[c]
    BY AssignedColumns DEF ApiInv, SessionsOK
<1>3. AlertChecks(old) /\ DOMAIN old = Columns
    BY <1>1, <1>2, Ids, RowColumns DEF ApiInv, StoredChecked
<1>4. \A c \in Columns :
          Patched(old, payload[r])[c] = IF c \in DOMAIN payload[r] THEN payload[r][c] ELSE old[c]
    BY <1>2, PatchedRow
<1> HIDE DEF old, row
<1>5. \A c \in Columns \ {"last_evaluated_at"} :
          row[c] = IF c \in DOMAIN payload[r] THEN payload[r][c] ELSE old[c]
    BY <1>1, <1>2 DEF Column
<1>6. FitsInteger(row)
    BY <1>2, <1>5 DEF FitsInteger, Columns, AlertRow
<1>7. AlertChecks(row)
    <2>1. DOMAIN row = Columns
        BY <1>1 DEF AssignedRow, Columns
    <2>2. \A c \in DOMAIN row \ {"deleted_at", "last_evaluated_at"} : row[c] # NULL
        BY <1>3, <1>5, <2>1 DEF AlertChecks, Columns
    <2>3. row.deleted_at = NULL
        BY <1>1, <1>2 DEF Column, Columns
    <2>4. LookaheadIsValid(row.lookahead_days)
        BY <1>2, <1>3, <1>5, <2>1, <2>2 DEF SchemaAccepts, AlertChecks, Columns
    <2>5. ThresholdIsValid(row.metric, row.threshold_value)
        BY <1>2, <1>4, <1>5 DEF Columns
    <2>6. ThresholdChecks(row.metric, row.threshold_value)
        BY <2>5 DEF ThresholdIsValid, ThresholdChecks, ProbabilityMetrics, NonNegativeMetrics
    <2> QED
        BY <2>2, <2>3, <2>4, <2>6 DEF AlertChecks
<1> QED
    BY <1>6, <1>7 DEF row, Accepts

\* A row that a request commits: a deleted one stays deleted and inactive,
\* because no PATCH sends deleted_at and the table checks the pair.
LEMMA CommitKeepsDeleted ==
    ASSUME ApiInv, NEW r \in Requests, request[r] # "none", Accepts(TableOf(r), target[r]),
           alerts[target[r]].deleted_at # NULL
    PROVE  TableOf(r)[target[r]].deleted_at # NULL /\ ~TableOf(r)[target[r]].is_active
<1>1. TableOf(r)[target[r]].deleted_at = Column(alerts[target[r]].deleted_at,
                                                loaded[r].deleted_at,
                                                AssignedBy(r).deleted_at)
    BY CommittedTable DEF Columns
<1>2. loaded[r].deleted_at = NULL
    BY DEF ApiInv, SessionsOK
<1>3. AssignedBy(r).deleted_at \in {NULL, "set"}
    BY AssignedColumns DEF AssignedRow
<1>4. TableOf(r)[target[r]].deleted_at # NULL
    BY <1>1, <1>2, <1>3 DEF Column
<1> QED
    BY <1>4 DEF Accepts, AlertChecks

\* No commit takes back a delete, and nothing else writes a stored row.
LEMMA DeletedStep ==
    ApiInv /\ [ApiNext]_apiVars =>
        \A a \in AlertIds : alerts[a].deleted_at # NULL =>
            alerts'[a].deleted_at # NULL /\ ~alerts'[a].is_active
<1> SUFFICES ASSUME ApiInv, [ApiNext]_apiVars, NEW a \in AlertIds, alerts[a].deleted_at # NULL
             PROVE  alerts'[a].deleted_at # NULL /\ ~alerts'[a].is_active
    OBVIOUS
<1>1. alerts[a].is_active = FALSE
    BY DEF ApiInv, StoredChecked, AlertChecks
<1>2. CASE alerts'[a] = alerts[a]
    BY <1>1, <1>2
<1>3. ASSUME NEW r \in Requests, Create(r) PROVE alerts'[a] = alerts[a]
    <2>1. PICK row : alerts' = Append(alerts, row)
        BY <1>3 DEF Create
    <2>2. alerts \in Seq(AlertRow \cup {row}) /\ a \in 1..Len(alerts)
        BY Ids DEF ApiInv, ApiTypeOK
    <2> QED
        BY <2>1, <2>2, AppendProperties
<1>4. ASSUME NEW r \in Requests, CommitRequest(r), a # target[r] PROVE alerts'[a] = alerts[a]
    BY <1>4, CommittedTable DEF CommitRequest
<1>5. ASSUME NEW r \in Requests, CommitRequest(r), a = target[r]
      PROVE  alerts'[a].deleted_at # NULL /\ ~alerts'[a].is_active
    BY <1>5, CommitKeepsDeleted DEF CommitRequest
<1> QED
    BY <1>2, <1>3, <1>4, <1>5
        DEF ApiNext, LoadForPatch, LoadForDelete, Load, RefuseRequest, apiVars

\* What the commit of a PATCH makes of the row it finds.
LEMMA PatchedCommit ==
    ASSUME ApiInv, NEW r \in Requests, request[r] = "patch", Accepts(TableOf(r), target[r])
    PROVE  LET new == TableOf(r)[target[r]]
               alone == Patched(alerts[target[r]], payload[r])
           IN  /\ ThresholdIsValid(new.metric, new.threshold_value)
               /\ \A c \in DOMAIN alone \ {"last_evaluated_at"} :
                      \/ new[c] = alone[c]
                      \/ c \in DOMAIN payload[r] /\ payload[r][c] = loaded[r][c]
<1> DEFINE old == alerts[target[r]]
           new == TableOf(r)[target[r]]
           alone == Patched(old, payload[r])
<1>1. /\ new \in AlertRow /\ target[r] \in AlertIds
      /\ \A c \in Columns : new[c] = Column(old[c], loaded[r][c], AssignedBy(r)[c])
    BY CommittedTable
<1>2. \A c \in Columns \ {"last_evaluated_at"} :
          AssignedBy(r)[c] = IF c \in DOMAIN payload[r] THEN payload[r][c] ELSE loaded[r][c]
    BY AssignedColumns
<1>3. DOMAIN alone = Columns
      /\ \A c \in Columns : alone[c] = IF c \in DOMAIN payload[r] THEN payload[r][c] ELSE old[c]
    <2>1. old \in AlertRow /\ DOMAIN old = Columns /\ payload[r] \in Patches
        BY <1>1, Ids, RowColumns DEF ApiInv, SessionsOK
    <2> QED
        BY <2>1, PatchedRow DEF Patched
<1>4. AlertChecks(new)
    BY DEF Accepts
<1> HIDE DEF old, new, alone
<1>5. ThresholdIsValid(new.metric, new.threshold_value)
    BY <1>1, <1>4, CheckedThreshold
<1>6. \A c \in DOMAIN alone \ {"last_evaluated_at"} :
          new[c] = alone[c] \/ (c \in DOMAIN payload[r] /\ payload[r][c] = loaded[r][c])
    BY <1>1, <1>2, <1>3 DEF Column
<1> QED
    BY <1>5, <1>6 DEF old, new, alone

\* Only the commit of a PATCH answers it while the table accepts it.
LEMMA PatchStep ==
    ASSUME ApiInv, [ApiNext]_apiVars, NEW r \in Requests,
           request[r] = "patch", request'[r] = "none", Accepts(TableOf(r), target[r])
    PROVE  alerts' = TableOf(r)
<1>1. request \in [Requests -> {"none", "patch", "delete"}]
    BY DEF ApiInv, ApiTypeOK
<1>2. request' # request
    OBVIOUS
<1>3. ASSUME NEW q \in Requests, CommitRequest(q) \/ RefuseRequest(q) PROVE q = r
    BY <1>1, <1>3 DEF CommitRequest, RefuseRequest, Answered
<1>4. ASSUME NEW q \in Requests, NEW id \in AlertIds, LoadForPatch(q, id) \/ LoadForDelete(q, id)
      PROVE  FALSE
    BY <1>1, <1>4 DEF LoadForPatch, LoadForDelete, Load
<1>5. ASSUME NEW q \in Requests, Create(q) PROVE FALSE
    BY <1>2, <1>5 DEF Create, apiLocals
<1> QED
    BY <1>2, <1>3, <1>4, <1>5 DEF ApiNext, apiVars, apiLocals, CommitRequest, RefuseRequest

-----------------------------------------------------------------------------
(* Theorems of the API.                                                    *)

\* Every column of the table stays typed, and a request has its locals exactly
\* while it is served.
THEOREM ApiTyped == ApiSpec => []ApiTypeOK
<1>1. ApiInv => ApiTypeOK
    BY DEF ApiInv
<1> QED
    BY <1>1, ApiInvariant, PTL

\* No two live alerts have the same rule.
THEOREM LiveRulesAlwaysDiffer == ApiSpec => []LiveRulesDiffer
<1>1. ApiInv => LiveRulesDiffer
    BY DEF ApiInv
<1> QED
    BY <1>1, ApiInvariant, PTL

\* A PATCH that nobody disturbed fails only for a rule that is taken, an
\* explicit null or a threshold beyond the column.
THEOREM PatchesFailForAReason == ApiSpec => []RefusedForAReason
BY ApiInvariant, UndisturbedPatch, PTL

\* The DELETE of an alert that was active when loaded is never refused.
THEOREM ActiveAlertsCanBeDeleted == ApiSpec => []DeleteOfActiveSucceeds
BY ApiInvariant, ActiveDelete, PTL

\* Nothing restores or reactivates a deleted alert.
THEOREM DeletesAreFinal == ApiSpec => DeletedIsFinal
<1>1. ApiInv /\ [ApiNext]_apiVars =>
          [\A a \in AlertIds : alerts[a].deleted_at # NULL =>
               alerts'[a].deleted_at # NULL /\ ~alerts'[a].is_active]_apiVars
    BY DeletedStep
<1> QED
    BY <1>1, ApiInvariant, PTL DEF ApiSpec, DeletedIsFinal

\* A PATCH does to the row it finds what it would have done alone, validation
\* included.
THEOREM PatchesAreAsIfAlone == ApiSpec => PatchIsAsIfAlone
<1>1. ApiInv /\ [ApiNext]_apiVars =>
          [\A r \in Requests :
               LET id == target[r]
                   alone == Patched(alerts[id], payload[r])
               IN  request[r] = "patch" /\ request'[r] = "none" /\ Accepts(TableOf(r), id) =>
                       /\ ThresholdIsValid(alerts'[id].metric, alerts'[id].threshold_value)
                       /\ \A c \in DOMAIN alone \ {"last_evaluated_at"} :
                              \/ alerts'[id][c] = alone[c]
                              \/ c \in DOMAIN payload[r] /\ payload[r][c] = loaded[r][c]]_apiVars
    BY PatchStep, PatchedCommit
<1> QED
    BY <1>1, ApiInvariant, PTL DEF ApiSpec, PatchIsAsIfAlone

=============================================================================
