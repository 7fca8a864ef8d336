------------------------ MODULE ClimateAlertsProofs ------------------------
(***************************************************************************)
(* Theorems about ClimateAlerts.tla, for every value of its constants.     *)
(*                                                                         *)
(* A step of the deployment is a step of Evaluation.tla, of Delivery.tla   *)
(* or of both, so the invariants of EvaluationProofs.tla (EvalInv) and of  *)
(* DeliveryProofs.tla (TypeOK, FreshInv) are kept by the lemmas proved     *)
(* there.  What is new is what the parts know of each other: QueueOK       *)
(* relates the tables of both halves, and FailuresExplained the attempts   *)
(* of a row, the outcomes a worker holds, the receiver's memory and the    *)
(* disturbances so far.                                                    *)
(***************************************************************************)
EXTENDS ClimateAlerts, EvaluationProofs, FiniteSetTheorems

\* Delivery.tla with its theorems, at the constants of the deployment.
DP == INSTANCE DeliveryProofs WITH Answers <- {202, 500}, Poison <- {}

-----------------------------------------------------------------------------
(* The delivery loop of the deployment.                                    *)

\* The settings are ones the delivery loop is made for.
LEMMA Settings == DP!ConstantsAssumption
BY ClimateAssumption DEF D!ConstantsAssumption, DP!ConstantsAssumption

\* What both instances of Delivery.tla define without a step.
LEMMA SameParts ==
    /\ D!Deliveries = DP!Deliveries /\ D!NoRow = DP!NoRow
    /\ D!Null = DP!Null /\ D!NoAnswer = DP!NoAnswer /\ D!Pending = DP!Pending
    /\ D!NoCopies = DP!NoCopies /\ D!NoOutcomes = DP!NoOutcomes
    /\ D!NoSnapshot = DP!NoSnapshot /\ D!PendingRow = DP!PendingRow
    /\ D!Due = DP!Due /\ D!NextBatch = DP!NextBatch
<1>1. /\ D!Deliveries = DP!Deliveries /\ D!NoRow = DP!NoRow
      /\ D!Null = DP!Null /\ D!NoAnswer = DP!NoAnswer /\ D!Pending = DP!Pending
    BY DEF D!Deliveries, DP!Deliveries, D!NoRow, DP!NoRow, D!Null, DP!Null, D!NoAnswer,
           DP!NoAnswer, D!Pending, DP!Pending
<1>2. /\ D!NoCopies = DP!NoCopies /\ D!NoOutcomes = DP!NoOutcomes
      /\ D!NoSnapshot = DP!NoSnapshot /\ D!PendingRow = DP!PendingRow
    BY <1>1 DEF D!NoCopies, DP!NoCopies, D!NoOutcomes, DP!NoOutcomes, D!NoSnapshot,
                DP!NoSnapshot, D!PendingRow, DP!PendingRow
<1>3. D!Due = DP!Due /\ \A c, d : D!Before(c, d) <=> DP!Before(c, d)
    BY <1>1 DEF D!Due, DP!Due, D!Before, DP!Before
<1>4. D!NextBatch = DP!NextBatch
    BY DEF D!NextBatch, DP!NextBatch, D!Due, DP!Due, D!Before, DP!Before, D!Deliveries,
           DP!Deliveries, D!Cardinality, DP!Cardinality
<1> QED
    BY <1>1, <1>2, <1>3, <1>4

\* Both instances start alike,
LEMMA SameInit == D!Init => DP!Init
BY SameParts DEF D!Init, DP!Init

\* forget alike,
LEMMA SameForget == ASSUME NEW w, D!Forget(w) PROVE DP!Forget(w)
BY SameParts DEF D!Forget, DP!Forget

\* and take the same steps: the start of the loop,
LEMMA SameStart == ASSUME NEW w, D!StartCycle(w) PROVE DP!StartCycle(w)
BY SameParts DEF D!StartCycle, DP!StartCycle, D!receiverVars, DP!receiverVars

\* the load of a batch,
LEMMA SameLoad == ASSUME NEW w, D!LoadBatch(w) PROVE DP!LoadBatch(w)
BY SameParts DEF D!LoadBatch, DP!LoadBatch, D!receiverVars, DP!receiverVars, D!dbVars, DP!dbVars

\* the end of the loop,
LEMMA SameFinish == ASSUME NEW w, D!FinishCycle(w) PROVE DP!FinishCycle(w)
BY SameParts DEF D!FinishCycle, DP!FinishCycle, D!receiverVars, DP!receiverVars, D!dbVars, DP!dbVars

\* a post,
LEMMA SamePost == ASSUME NEW w, NEW d, D!Post(w, d) PROVE DP!Post(w, d)
<1>1. /\ D!Outcome = DP!Outcome /\ \A res : D!IsSuccess(res) <=> DP!IsSuccess(res)
      /\ D!PayloadAttempt(w, d) = DP!PayloadAttempt(w, d)
    BY SameParts DEF D!Outcome, DP!Outcome, D!IsSuccess, DP!IsSuccess, D!PayloadAttempt,
                     DP!PayloadAttempt
<1> QED
    BY SameParts, <1>1 DEF D!Post, DP!Post, D!dbVars, DP!dbVars

\* the second read,
LEMMA SameReadBack == ASSUME NEW w, D!ReadBack(w) PROVE DP!ReadBack(w)
BY SameParts DEF D!ReadBack, DP!ReadBack, D!receiverVars, DP!receiverVars, D!dbVars, DP!dbVars

\* a failure,
LEMMA SameFail == ASSUME NEW w, D!CycleFails(w) PROVE DP!CycleFails(w)
BY SameForget DEF D!CycleFails, DP!CycleFails, D!receiverVars, DP!receiverVars, D!dbVars, DP!dbVars

\* a minute,
LEMMA SameTick == D!Tick => DP!Tick
BY SameParts DEF D!Tick, DP!Tick, D!receiverVars, DP!receiverVars, D!workerVars, DP!workerVars

\* the UPDATE of a row,
LEMMA SameUpdate == ASSUME NEW w, NEW d PROVE D!Updated(w, d) = DP!Updated(w, d)
BY SameParts DEF D!Updated, DP!Updated, D!Written, DP!Written, D!Assigned, DP!Assigned,
   D!AfterSuccess, DP!AfterSuccess, D!AfterFailure, DP!AfterFailure, D!IsSuccess, DP!IsSuccess,
   D!StatusOf, DP!StatusOf, D!Exhausted, DP!Exhausted, D!BackoffMinutes, DP!BackoffMinutes,
   D!ResultFor, DP!ResultFor, D!Column, DP!Column

\* which meets the same CHECKs,
LEMMA SameChecks == ASSUME NEW r PROVE D!RowChecks(r) = DP!RowChecks(r)
BY SameParts DEF D!RowChecks, DP!RowChecks, D!ResponseStatusHttpBounds,
   DP!ResponseStatusHttpBounds, D!AttemptCountMatchesStatus, DP!AttemptCountMatchesStatus,
   D!SentAtMatchesStatus, DP!SentAtMatchesStatus, D!DeliveredHasResult, DP!DeliveredHasResult,
   D!UndeliveredResult, DP!UndeliveredResult

\* and the commit.
LEMMA SameCommit == ASSUME NEW w, D!Commit(w) PROVE DP!Commit(w)
BY SameParts, SameUpdate, SameChecks, SameForget
   DEF D!Commit, DP!Commit, D!Storable, DP!Storable, D!receiverVars, DP!receiverVars

-----------------------------------------------------------------------------
(* Lists without repetitions.                                              *)

Distinct(s) == \A i, j \in DOMAIN s : s[i] = s[j] => i = j

ElementsOf(s) == {s[i] : i \in DOMAIN s}

\* As many elements as a set has, none of them twice: all of the set.
LEMMA ListsAll ==
    ASSUME NEW S, IsFiniteSet(S), NEW new \in [1..Cardinality(S) -> S], Distinct(new)
    PROVE  Cardinality(S) \in Nat /\ ElementsOf(new) = S
<1>1. Cardinality(S) \in Nat
    BY FS_CardinalityType
<1>2. IsFiniteSet(1..Cardinality(S)) /\ Cardinality(1..Cardinality(S)) = Cardinality(S)
    BY <1>1, FS_Interval
<1>3. new \in Injection(1..Cardinality(S), S)
    BY DEF Distinct, Injection, IsInjective
<1>4. new \in Surjection(1..Cardinality(S), S)
    BY <1>2, <1>3, FS_Injection
<1> QED
    BY <1>1, <1>4 DEF Surjection, ElementsOf

\* A list without repetitions is no longer than the set it is from.
LEMMA ListIsShort ==
    ASSUME NEW S, IsFiniteSet(S), NEW s \in Seq(S), Distinct(s)
    PROVE  Len(s) <= Cardinality(S)
<1>1. Len(s) \in Nat /\ s \in [1..Len(s) -> S]
    BY LenProperties
<1>2. s \in Injection(1..Len(s), S)
    BY <1>1 DEF Distinct, Injection, IsInjective
<1>3. IsFiniteSet(1..Len(s)) /\ Cardinality(1..Len(s)) = Len(s)
    BY <1>1, FS_Interval
<1> QED
    BY <1>2, <1>3, FS_Injection

\* Two lists without repetitions, one after the other.
LEMMA ListsJoined ==
    ASSUME NEW S, NEW s \in Seq(S), NEW new \in Seq(S), Distinct(s), Distinct(new),
           ElementsOf(s) \cap ElementsOf(new) = {}
    PROVE  /\ s \o new \in Seq(S)
           /\ DOMAIN s \subseteq DOMAIN (s \o new)
           /\ Distinct(s \o new)
           /\ ElementsOf(s \o new) = ElementsOf(s) \cup ElementsOf(new)
<1> DEFINE t == s \o new
<1>1. /\ Len(s) \in Nat /\ DOMAIN s = 1..Len(s)
      /\ Len(new) \in Nat /\ DOMAIN new = 1..Len(new)
    BY LenProperties
<1>2. /\ t \in Seq(S) /\ DOMAIN t = 1..Len(s) + Len(new)
      /\ \A i \in 1..Len(s) + Len(new) : t[i] = IF i <= Len(s) THEN s[i] ELSE new[i - Len(s)]
    BY ConcatProperties, LenProperties
<1> HIDE DEF t
<1>3. \A i \in DOMAIN t : \/ i \in DOMAIN s /\ t[i] = s[i]
                          \/ i \notin DOMAIN s /\ i - Len(s) \in DOMAIN new /\ t[i] = new[i - Len(s)]
    BY <1>1, <1>2
<1>4. \A i \in DOMAIN s : i \in DOMAIN t /\ t[i] = s[i]
    BY <1>1, <1>2
<1>5. \A i \in DOMAIN new : i + Len(s) \in DOMAIN t /\ t[i + Len(s)] = new[i]
    BY <1>1, <1>2
<1>6. Distinct(t)
    <2> SUFFICES ASSUME NEW i \in DOMAIN t, NEW j \in DOMAIN t, t[i] = t[j] PROVE i = j
        BY DEF Distinct
    <2>1. CASE i \in DOMAIN s /\ j \in DOMAIN s
        BY <1>4, <2>1 DEF Distinct
    <2>2. CASE i \notin DOMAIN s /\ j \notin DOMAIN s
        <3>1. /\ i - Len(s) \in DOMAIN new /\ j - Len(s) \in DOMAIN new
              /\ new[i - Len(s)] = new[j - Len(s)]
            BY <1>3, <2>2
        <3>2. i - Len(s) = j - Len(s)
            BY <3>1 DEF Distinct
        <3> QED
            BY <1>1, <1>2, <3>2
    <2>3. CASE (i \in DOMAIN s) # (j \in DOMAIN s)
        <3>1. t[i] \in ElementsOf(s) \cap ElementsOf(new)
            BY <1>3, <2>3 DEF ElementsOf
        <3> QED
            BY <3>1
    <2> QED
        BY <2>1, <2>2, <2>3
<1>7. ElementsOf(t) = ElementsOf(s) \cup ElementsOf(new)
    <2>1. ElementsOf(t) \subseteq ElementsOf(s) \cup ElementsOf(new)
        BY <1>3 DEF ElementsOf
    <2>2. ElementsOf(s) \subseteq ElementsOf(t) /\ ElementsOf(new) \subseteq ElementsOf(t)
        BY <1>4, <1>5 DEF ElementsOf
    <2> QED
        BY <2>1, <2>2
<1> QED
    BY <1>2, <1>4, <1>6, <1>7 DEF t

-----------------------------------------------------------------------------
(* What the parts know of each other.                                      *)

\* The rows of deliveries are the queued triggers, one each, in the order of
\* their insertion, and the bound N has room for all of them.
QueueOK ==
    /\ AlertIds \subseteq 1..MaxAlerts
    /\ delivery_of \in Seq((1..MaxAlerts) \X Forecasts)
    /\ Distinct(delivery_of)
    /\ ElementsOf(delivery_of) = deliveries
    /\ DOMAIN delivery_of \subseteq D!Deliveries
    /\ \A d \in D!Deliveries : rows[d].status # "ABSENT" <=> d \in DOMAIN delivery_of

\* A worker posts rows that exist,
BatchesExist == \A w \in Workers : \A d \in batch[w] : rows[d].status # "ABSENT"

\* and is in one half of its cycle.
HalvesApart == \A w \in Workers : phase[w] = "asleep" \/ pc[w] = "asleep"

PartsInv == EvalInv /\ DP!TypeOK /\ QueueOK /\ BatchesExist /\ HalvesApart

\* Everybody sleeps at first and the tables are empty.
LEMMA PartsInit == ClimateInit => PartsInv
<1> SUFFICES ASSUME ClimateInit PROVE PartsInv
    OBVIOUS
<1>1. EvalInv
    BY EvalInitInv DEF ClimateInit
<1>2. DP!Init
    BY SameInit DEF ClimateInit
<1>3. DP!TypeOK
    BY <1>2, Settings, DP!TypeInit
<1>4. /\ delivery_of = << >> /\ deliveries = {} /\ alerts = << >>
      /\ \A d \in D!Deliveries : rows[d].status = "ABSENT"
    BY DEF ClimateInit, Init, ApiInit, D!Init, D!NoRow
<1>5. QueueOK
    BY <1>4, EmptySeq DEF QueueOK, Distinct, ElementsOf, AlertIds
<1>6. BatchesExist /\ HalvesApart
    BY DEF ClimateInit, Init, D!Init, BatchesExist, HalvesApart
<1> QED
    BY <1>1, <1>3, <1>5, <1>6 DEF PartsInv

\* The steps of the delivery half are those of Delivery.tla.
LEMMA DeliverySteps ==
    ASSUME \/ \E w \in Workers :
                  \/ D!StartCycle(w) \/ D!LoadBatch(w) \/ D!FinishCycle(w) \/ D!ReadBack(w)
                  \/ D!Commit(w) \/ D!CycleFails(w)
                  \/ \E d \in D!Deliveries : D!Post(w, d)
           \/ D!Tick
    PROVE  DP!Next
BY SameParts, SameStart, SameLoad, SameFinish, SamePost, SameReadBack, SameCommit, SameFail,
   SameTick DEF DP!Next, DP!WorkerStep

\* They leave the tables of the evaluation alone, up to the shared count of
\* faults.
LEMMA BesideDelivery ==
    ASSUME EvalInv, UNCHANGED evaluationVars
    PROVE  EvalInv' /\ AlertIds' = AlertIds
<1>1. ApiInv' /\ AlertIds' = AlertIds
    BY ApiStep DEF EvalInv, evaluationVars, apiVars, AlertIds
<1>2. today \in 0..MaxDay /\ today <= today
    BY EvaluationAssumption DEF EvalInv, EvaluationTypeOK
<1> QED
    BY <1>1, <1>2, OtherStep DEF evaluationVars, weatherVars

\* The other way round.
LEMMA BesideEvaluation ==
    ASSUME DP!TypeOK, BatchesExist, UNCHANGED deliveryVars, faults' \in Nat
    PROVE  DP!TypeOK' /\ BatchesExist'
<1>1. DP!TypeOK'
    BY DEF DP!TypeOK, DP!LocalsOK, deliveryVars
<1> QED
    BY <1>1 DEF BatchesExist, deliveryVars

\* A step that queues nothing and creates no row.
LEMMA QuietQueue ==
    ASSUME QueueOK, AlertIds' \subseteq 1..MaxAlerts, UNCHANGED << delivery_of, deliveries >>,
           \A d \in D!Deliveries : rows'[d].status = "ABSENT" <=> rows[d].status = "ABSENT"
    PROVE  QueueOK'
BY DEF QueueOK, Distinct, ElementsOf, D!Deliveries

\* No row disappears and no outcome is recorded on a row that does not exist.
LEMMA RowsStay ==
    ASSUME DP!TypeOK, BatchesExist,
           \/ \E w \in Workers :
                  \/ D!LoadBatch(w) \/ D!FinishCycle(w) \/ D!ReadBack(w)
                  \/ D!Commit(w) \/ D!CycleFails(w)
                  \/ \E d \in D!Deliveries : D!Post(w, d)
           \/ D!Tick
    PROVE  /\ BatchesExist'
           /\ \A d \in D!Deliveries : rows'[d].status = "ABSENT" <=> rows[d].status = "ABSENT"
<1> USE DEF D!dbVars, D!workerVars, D!receiverVars
<1>0. batch = [v \in Workers |-> batch[v]]
    BY DEF DP!TypeOK
<1>1. ASSUME NEW w \in Workers, D!LoadBatch(w) PROVE BatchesExist' /\ rows' = rows
    <2>1. \A d \in D!NextBatch : rows[d].status # "ABSENT"
        BY DEF D!NextBatch, D!Due
    <2> QED
        BY <1>0, <1>1, <2>1 DEF D!LoadBatch, BatchesExist
<1>2. ASSUME NEW w \in Workers, D!FinishCycle(w) \/ D!ReadBack(w)
      PROVE  BatchesExist' /\ rows' = rows
    BY <1>2 DEF D!FinishCycle, D!ReadBack, BatchesExist
<1>3. ASSUME NEW w \in Workers, NEW d \in D!Deliveries, D!Post(w, d)
      PROVE  BatchesExist' /\ rows' = rows
    BY <1>3 DEF D!Post, BatchesExist
<1>4. ASSUME NEW w \in Workers, D!Commit(w)
      PROVE  /\ BatchesExist'
             /\ \A d \in D!Deliveries : rows'[d].status = "ABSENT" <=> rows[d].status = "ABSENT"
    <2>1. \A d \in batch[w] : D!Updated(w, d).status # "ABSENT"
        BY DEF BatchesExist, D!Updated, D!Written, D!Assigned, D!AfterSuccess, D!AfterFailure,
               D!Column
    <2>2. \A d \in D!Deliveries :
              rows'[d] = IF d \in batch[w] THEN D!Updated(w, d) ELSE rows[d]
        BY <1>4 DEF D!Commit
    <2>3. \A d \in D!Deliveries : rows'[d].status = "ABSENT" <=> rows[d].status = "ABSENT"
        BY <2>1, <2>2 DEF BatchesExist
    <2>4. \A v \in Workers : batch'[v] \subseteq batch[v] /\ batch[v] \subseteq D!Deliveries
        BY <1>0, <1>4, SameParts DEF D!Commit, D!Forget, DP!TypeOK
    <2> QED
        BY <2>3, <2>4 DEF BatchesExist
<1>5. ASSUME NEW w \in Workers, D!CycleFails(w) PROVE BatchesExist' /\ rows' = rows
    BY <1>0, <1>5 DEF D!CycleFails, D!Forget, BatchesExist
<1>6. CASE D!Tick
    BY <1>6 DEF D!Tick, BatchesExist
<1> QED
    BY <1>1, <1>2, <1>3, <1>4, <1>5, <1>6

\* A request creates an alert only while there is room for it.
LEMMA AlertsBounded ==
    ASSUME ApiInv, ApiNext, AlertIds \subseteq 1..MaxAlerts
    PROVE  AlertIds' \subseteq 1..MaxAlerts
<1>1. ASSUME NEW r \in Requests, Create(r) PROVE AlertIds' \subseteq 1..MaxAlerts
    <2>1. PICK row : alerts' = Append(alerts, row)
        BY <1>1 DEF Create
    <2>2. alerts \in Seq(AlertRow \cup {row}) /\ Len(alerts) \in Nat
        BY LenProperties DEF ApiInv, ApiTypeOK
    <2>3. Len(alerts') = Len(alerts) + 1 /\ alerts' \in Seq(AlertRow \cup {row})
        BY <2>1, <2>2, AppendProperties
    <2>4. AlertIds' = 1..Len(alerts) + 1
        BY <2>3, LenProperties DEF AlertIds
    <2>5. Len(alerts) < MaxAlerts /\ MaxAlerts \in Nat
        BY <1>1, ApiAssumption DEF Create
    <2> QED
        BY <2>2, <2>4, <2>5
<1>2. ASSUME NEW r \in Requests, CommitRequest(r) PROVE AlertIds' = AlertIds
    BY <1>2, CommittedTable DEF CommitRequest, AlertIds
<1> QED
    BY <1>1, <1>2 DEF ApiNext, LoadForPatch, LoadForDelete, Load, RefuseRequest, AlertIds

\* The keys of the new triggers, listed in the order of the loops, continue the
\* ids without a gap or a repetition, and N has room for them.
LEMMA QueuedAreListed ==
    ASSUME PartsInv, NEW w \in Workers, CommitCycle(w),
           NEW new \in [1..Cardinality(Queued(w)) -> Queued(w)],
           \A i, j \in DOMAIN new : i < j => InsertedBefore(new[i], new[j]),
           delivery_of' = delivery_of \o new
    PROVE  /\ AlertIds' \subseteq 1..MaxAlerts
           /\ delivery_of' \in Seq((1..MaxAlerts) \X Forecasts)
           /\ Distinct(delivery_of)'
           /\ ElementsOf(delivery_of)' = deliveries'
           /\ DOMAIN delivery_of \subseteq DOMAIN delivery_of'
           /\ DOMAIN delivery_of' \subseteq D!Deliveries
<1> DEFINE keys == (1..MaxAlerts) \X Forecasts
<1>1. /\ MaxAlerts \in Nat /\ N \in Nat /\ IsFiniteSet(Forecasts)
      /\ N >= MaxAlerts * Cardinality(Forecasts)
    BY ApiAssumption, ClimateAssumption DEF D!ConstantsAssumption
<1>2. IsFiniteSet(keys) /\ Cardinality(keys) <= N
    <2>1. IsFiniteSet(1..MaxAlerts) /\ Cardinality(1..MaxAlerts) = MaxAlerts
        BY <1>1, FS_Interval
    <2>2. IsFiniteSet(keys) /\ Cardinality(keys) = MaxAlerts * Cardinality(Forecasts)
        BY <1>1, <2>1, FS_Product
    <2> QED
        BY <1>1, <2>2, FS_CardinalityType
<1>3. Queued(w) \subseteq keys /\ Queued(w) \cap deliveries = {}
    <2>1. \A t \in NewTriggers(w) : t.alert_id \in AlertIds /\ t.weather_forecast_id \in Forecasts
        BY MatchesAreSnapshots DEF PartsInv, NewTriggers
    <2>2. \A t \in NewTriggers(w) : Key(t) \in keys
        BY <2>1 DEF Key, PartsInv, QueueOK
    <2>3. Queued(w) \cap deliveries = {}
        BY DEF Queued, NewTriggers, PartsInv, EvalInv, EveryTriggerIsQueued
    <2> QED
        BY <2>2, <2>3 DEF Queued
<1>4. IsFiniteSet(Queued(w)) /\ Cardinality(Queued(w)) \in Nat
    BY <1>2, <1>3, FS_Subset, FS_CardinalityType
<1>5. Distinct(new)
    <2> SUFFICES ASSUME NEW i \in DOMAIN new, NEW j \in DOMAIN new, i < j PROVE new[i] # new[j]
        BY <1>4 DEF Distinct
    <2>1. InsertedBefore(new[i], new[j]) /\ new[i] \in keys /\ new[j] \in keys
        BY <1>3
    <2>2. /\ new[i][1] \in Nat /\ new[j][1] \in Nat
          /\ ForecastDate[new[i][2]] \in Int /\ ForecastDate[new[j][2]] \in Int
        BY <2>1, <1>1, EvaluationAssumption
    <2> QED
        BY <2>1, <2>2 DEF InsertedBefore
<1>6. ElementsOf(new) = Queued(w)
    BY <1>4, <1>5, ListsAll
<1>7. new \in Seq(keys)
    BY <1>3, <1>4, SeqDef
<1> HIDE DEF keys
<1>8. delivery_of \in Seq(keys) /\ Distinct(delivery_of) /\ ElementsOf(delivery_of) = deliveries
    BY DEF PartsInv, QueueOK, keys
<1>9. /\ delivery_of \o new \in Seq(keys)
      /\ DOMAIN delivery_of \subseteq DOMAIN (delivery_of \o new)
      /\ Distinct(delivery_of \o new)
      /\ ElementsOf(delivery_of \o new) = deliveries \cup Queued(w)
    BY <1>3, <1>5, <1>6, <1>7, <1>8, ListsJoined
<1>10. /\ delivery_of' \in Seq(keys) /\ Distinct(delivery_of')
       /\ ElementsOf(delivery_of') = deliveries'
       /\ DOMAIN delivery_of \subseteq DOMAIN delivery_of'
    BY <1>9 DEF CommitCycle
<1>11. DOMAIN delivery_of' \subseteq D!Deliveries
    <2>1. Len(delivery_of') <= Cardinality(keys) /\ Cardinality(keys) \in Nat
        BY <1>2, <1>10, ListIsShort, FS_CardinalityType
    <2>2. DOMAIN delivery_of' = 1..Len(delivery_of') /\ Len(delivery_of') \in Nat
        BY <1>10, LenProperties
    <2> QED
        BY <1>1, <1>2, <2>1, <2>2 DEF D!Deliveries
<1>12. AlertIds' = AlertIds
    BY StampKeepsApi DEF CommitCycle, PartsInv, EvalInv
<1> QED
    BY <1>10, <1>11, <1>12 DEF keys, Distinct, ElementsOf, PartsInv, QueueOK

\* Delivery starts with the rows of the new keys.
LEMMA DeliveryBegins ==
    ASSUME PartsInv, NEW w \in Workers, BeginDelivery(w),
           DOMAIN delivery_of \subseteq DOMAIN delivery_of',
           DOMAIN delivery_of' \subseteq D!Deliveries
    PROVE  /\ DP!TypeOK' /\ BatchesExist'
           /\ \A d \in D!Deliveries : rows'[d].status # "ABSENT" <=> d \in DOMAIN delivery_of'
<1>1. /\ D!StartCycle(w)
      /\ rows' = [d \in D!Deliveries |->
                     IF d \in (DOMAIN delivery_of') \ (DOMAIN delivery_of)
                     THEN D!PendingRow ELSE rows[d]]
    BY DEF BeginDelivery
<1>2. DP!TypeOK'
    BY <1>1, DeliverySteps, Settings, DP!TypeStep DEF PartsInv
<1>3. \A d \in D!Deliveries : rows'[d].status # "ABSENT" <=> d \in DOMAIN delivery_of'
    BY <1>1 DEF PartsInv, QueueOK, D!PendingRow
<1>4. batch' = batch /\ \A v \in Workers : batch[v] \subseteq D!Deliveries
    BY <1>1, SameParts DEF D!StartCycle, PartsInv, DP!TypeOK
<1>5. BatchesExist'
    BY <1>1, <1>4 DEF PartsInv, BatchesExist, D!PendingRow
<1> QED
    BY <1>2, <1>3, <1>5

\* A step of the delivery half after its start, and of the clock.
LEMMA DeliveryKeepsParts ==
    ASSUME PartsInv, UNCHANGED << evaluationVars, delivery_of >>,
           \/ \E w \in Workers :
                  \/ D!LoadBatch(w) \/ D!FinishCycle(w) \/ D!ReadBack(w)
                  \/ D!Commit(w) \/ D!CycleFails(w)
                  \/ \E d \in D!Deliveries : D!Post(w, d)
           \/ D!Tick
    PROVE  PartsInv'
<1>1. EvalInv' /\ AlertIds' = AlertIds
    BY BesideDelivery DEF PartsInv
<1>2. DP!TypeOK'
    BY DeliverySteps, Settings, DP!TypeStep DEF PartsInv
<1>3. /\ BatchesExist'
      /\ \A d \in D!Deliveries : rows'[d].status = "ABSENT" <=> rows[d].status = "ABSENT"
    BY RowsStay DEF PartsInv
<1>4. AlertIds' \subseteq 1..MaxAlerts /\ UNCHANGED << delivery_of, deliveries >>
    BY <1>1 DEF PartsInv, QueueOK, evaluationVars
<1>5. QueueOK'
    BY <1>3, <1>4, QuietQueue DEF PartsInv
<1>6. phase' = phase /\ pc \in [Workers -> {"asleep", "load", "post", "apply"}]
    BY DEF evaluationVars, workerVars, PartsInv, DP!TypeOK
<1>7. ASSUME D!Tick PROVE HalvesApart'
    BY <1>6, <1>7 DEF D!Tick, D!workerVars, HalvesApart, PartsInv
<1>8. ASSUME NEW w \in Workers,
             \/ D!LoadBatch(w) \/ D!FinishCycle(w) \/ D!ReadBack(w) \/ D!Commit(w)
             \/ D!CycleFails(w) \/ \E d \in D!Deliveries : D!Post(w, d)
      PROVE  HalvesApart'
    <2>1. pc[w] # "asleep" /\ \A v \in Workers \ {w} : pc'[v] = pc[v]
        BY <1>6, <1>8 DEF D!LoadBatch, D!FinishCycle, D!ReadBack, D!Commit, D!CycleFails, D!Post
    <2> QED
        BY <1>6, <2>1 DEF HalvesApart, PartsInv
<1>9. HalvesApart'
    BY <1>7, <1>8
<1> QED
    BY <1>1, <1>2, <1>3, <1>5, <1>9 DEF PartsInv

\* A step of evaluation that inserts nothing, of a request or of the weather.
LEMMA EvaluationKeepsParts ==
    ASSUME PartsInv, EvalInv', AlertIds' \subseteq 1..MaxAlerts, HalvesApart',
           UNCHANGED << deliveryVars, deliveries >>, faults' \in Nat
    PROVE  PartsInv'
<1>1. DP!TypeOK' /\ BatchesExist'
    BY BesideEvaluation DEF PartsInv
<1>2. UNCHANGED << delivery_of, deliveries, rows >>
    BY DEF deliveryVars
<1>3. QueueOK'
    BY <1>2, QuietQueue DEF PartsInv
<1> QED
    BY <1>1, <1>3 DEF PartsInv

\* The commit of evaluation and the start of delivery are one step.
LEMMA EndEvaluationKeepsParts ==
    ASSUME PartsInv, NEW w \in Workers, EndEvaluation(w)
    PROVE  PartsInv'
<1>1. CommitCycle(w) /\ BeginDelivery(w)
    BY DEF EndEvaluation
<1>2. PICK new \in [1..Cardinality(Queued(w)) -> Queued(w)] :
          /\ \A i, j \in DOMAIN new : i < j => InsertedBefore(new[i], new[j])
          /\ delivery_of' = delivery_of \o new
    BY DEF EndEvaluation
<1>3. EvalInv'
    BY <1>1, CommitCycleStep DEF PartsInv
<1>4. /\ AlertIds' \subseteq 1..MaxAlerts
      /\ delivery_of' \in Seq((1..MaxAlerts) \X Forecasts)
      /\ Distinct(delivery_of)'
      /\ ElementsOf(delivery_of)' = deliveries'
      /\ DOMAIN delivery_of \subseteq DOMAIN delivery_of'
      /\ DOMAIN delivery_of' \subseteq D!Deliveries
    BY <1>1, <1>2, QueuedAreListed
<1>5. /\ DP!TypeOK' /\ BatchesExist'
      /\ \A d \in D!Deliveries : rows'[d].status # "ABSENT" <=> d \in DOMAIN delivery_of'
    BY <1>1, <1>4, DeliveryBegins
<1>6. QueueOK'
    BY <1>4, <1>5 DEF QueueOK, D!Deliveries
<1>7. /\ phase' = [phase EXCEPT ![w] = "asleep"] /\ pc' = [pc EXCEPT ![w] = "load"]
      /\ phase \in [Workers -> {"asleep", "forecasts", "insert"}]
      /\ pc \in [Workers -> {"asleep", "load", "post", "apply"}]
    BY <1>1 DEF CommitCycle, EndCycle, BeginDelivery, D!StartCycle, PartsInv, EvalInv,
                EvaluationTypeOK, DP!TypeOK
<1>8. HalvesApart'
    BY <1>7 DEF HalvesApart, PartsInv
<1> QED
    BY <1>3, <1>5, <1>6, <1>8 DEF PartsInv

\* Without live alerts delivery starts with the rows there are.
LEMMA SkipEvaluationKeepsParts ==
    ASSUME PartsInv, NEW w \in Workers, SkipEvaluation(w)
    PROVE  PartsInv'
<1>1. AtRest(w) /\ BeginDelivery(w) /\ UNCHANGED << evaluationVars, delivery_of >>
    BY DEF SkipEvaluation
<1>2. EvalInv' /\ AlertIds' = AlertIds
    BY <1>1, BesideDelivery DEF PartsInv
<1>3. DOMAIN delivery_of \subseteq DOMAIN delivery_of' /\ DOMAIN delivery_of' \subseteq D!Deliveries
    BY <1>1 DEF PartsInv, QueueOK
<1>4. /\ DP!TypeOK' /\ BatchesExist'
      /\ \A d \in D!Deliveries : rows'[d].status # "ABSENT" <=> d \in DOMAIN delivery_of'
    BY <1>1, <1>3, DeliveryBegins
<1>5. UNCHANGED << delivery_of, deliveries, phase >>
    BY <1>1 DEF evaluationVars, workerVars
<1>6. QueueOK'
    BY <1>2, <1>4, <1>5 DEF PartsInv, QueueOK, Distinct, ElementsOf, D!Deliveries
<1>7. /\ pc' = [pc EXCEPT ![w] = "load"] /\ phase[w] = "asleep"
      /\ pc \in [Workers -> {"asleep", "load", "post", "apply"}]
    BY <1>1 DEF AtRest, BeginDelivery, D!StartCycle, PartsInv, DP!TypeOK
<1>8. HalvesApart'
    BY <1>5, <1>7 DEF HalvesApart, PartsInv
<1> QED
    BY <1>2, <1>4, <1>6, <1>8 DEF PartsInv

\* Every step of the deployment keeps the parts in agreement.
LEMMA PartsStep ==
    ASSUME PartsInv, [ClimateNext]_climateVars
    PROVE  PartsInv'
<1>0. /\ faults \in Nat /\ AlertIds \subseteq 1..MaxAlerts
      /\ phase \in [Workers -> {"asleep", "forecasts", "insert"}]
    BY DEF PartsInv, DP!TypeOK, QueueOK, EvalInv, EvaluationTypeOK
<1>1. ASSUME NEW w \in Workers, Evaluate(w) PROVE PartsInv'
    <2>1. /\ EvalInv' /\ AlertIds' = AlertIds /\ faults' = faults
          /\ UNCHANGED << deliveryVars, deliveries >>
        BY <1>1, LoadAlertsStep, LoadForecastsStep
        DEF Evaluate, PartsInv, LoadAlerts, LoadForecasts, apiVars, AlertIds
    <2>2. /\ phase[w] = "asleep" => pc[w] = "asleep"
          /\ \A v \in Workers \ {w} : phase'[v] = phase[v]
          /\ pc' = pc
        BY <1>0, <1>1 DEF Evaluate, AtRest, LoadAlerts, LoadForecasts, deliveryVars
    <2>3. HalvesApart'
        BY <2>2 DEF HalvesApart, PartsInv
    <2> QED
        BY <1>0, <2>1, <2>3, EvaluationKeepsParts
<1>2. ASSUME NEW w \in Workers, EndEvaluation(w) PROVE PartsInv'
    BY <1>2, EndEvaluationKeepsParts
<1>3. ASSUME NEW w \in Workers, SkipEvaluation(w) PROVE PartsInv'
    BY <1>3, SkipEvaluationKeepsParts
<1>4. ASSUME NEW w \in Workers, Deliver(w) \/ \E d \in D!Deliveries : PostToMock(w, d)
      PROVE  PartsInv'
    BY <1>4, DeliveryKeepsParts DEF Deliver, PostToMock
<1>5. ASSUME NEW w \in Workers, Fail(w) PROVE PartsInv'
    <2>1. CASE CycleFails(w) /\ UNCHANGED << deliveryVars, receiverVars >>
        <3>1. /\ EvalInv' /\ AlertIds' = AlertIds /\ faults' = faults + 1
              /\ UNCHANGED << deliveryVars, deliveries >>
            BY <2>1, CycleFailsStep DEF PartsInv, CycleFails, apiVars, AlertIds
        <3>2. phase' = [phase EXCEPT ![w] = "asleep"] /\ pc' = pc
            BY <2>1 DEF CycleFails, EndCycle, deliveryVars
        <3>3. HalvesApart'
            BY <1>0, <3>2 DEF HalvesApart, PartsInv
        <3> QED
            BY <1>0, <3>1, <3>3, EvaluationKeepsParts
    <2>2. CASE D!CycleFails(w) /\ UNCHANGED << evaluationVars, delivery_of, receiverVars >>
        BY <2>2, DeliveryKeepsParts
    <2> QED
        BY <1>5, <2>1, <2>2 DEF Fail
<1>6. ASSUME UNCHANGED << evaluationVars, faults, deliveryVars >> PROVE PartsInv'
    <2>1. EvalInv' /\ AlertIds' = AlertIds
        BY <1>6, BesideDelivery DEF PartsInv
    <2>2. HalvesApart'
        BY <1>6 DEF HalvesApart, PartsInv, evaluationVars, workerVars, deliveryVars
    <2> QED
        BY <1>0, <1>6, <2>1, <2>2, EvaluationKeepsParts DEF evaluationVars
<1>7. CASE Environment
    <2>1. EvalInv'
        BY <1>7, EvalStep DEF Environment, Next, PartsInv
    <2>2. AlertIds' \subseteq 1..MaxAlerts
        <3>1. CASE ApiNext
            BY <1>0, <3>1, AlertsBounded DEF PartsInv, EvalInv
        <3>2. CASE (\E f \in Forecasts : Ingest(f)) \/ Midnight
            BY <1>0, <3>2 DEF Ingest, Midnight, apiVars, AlertIds
        <3> QED
            BY <1>7, <3>1, <3>2 DEF Environment
    <2>3. faults' = faults /\ phase' = phase /\ UNCHANGED << deliveryVars, deliveries >>
        BY <1>7 DEF Environment, evalVars, Ingest, Midnight, workerVars
    <2>4. HalvesApart'
        BY <2>3 DEF HalvesApart, PartsInv, deliveryVars
    <2> QED
        BY <1>0, <2>1, <2>2, <2>3, <2>4, EvaluationKeepsParts
<1>8. CASE Minute
    BY <1>8, DeliveryKeepsParts DEF Minute
<1> QED
    BY <1>1, <1>2, <1>3, <1>4, <1>5, <1>6, <1>7, <1>8
    DEF ClimateNext, WorkerStep, RestartReceiver, climateVars

\* Each trigger has one key and each key one trigger, and the rows list the keys
\* without repetitions.
LEMMA PartsInAgreement == PartsInv => PartsAgree
<1> SUFFICES ASSUME PartsInv PROVE PartsAgree
    OBVIOUS
<1>1. /\ delivery_of \in Seq((1..MaxAlerts) \X Forecasts)
      /\ Distinct(delivery_of) /\ ElementsOf(delivery_of) = deliveries
      /\ \A d \in D!Deliveries : rows[d].status # "ABSENT" <=> d \in DOMAIN delivery_of
      /\ DOMAIN delivery_of \subseteq D!Deliveries
    BY DEF PartsInv, QueueOK
<1>2. deliveries = {Key(t) : t \in triggers} /\ \A t, u \in triggers : Key(t) = Key(u) => t = u
    BY DEF PartsInv, EvalInv, EveryTriggerIsQueued, OneTriggerPerForecast
<1>3. Len(delivery_of) \in Nat /\ DOMAIN delivery_of = 1..Len(delivery_of)
    BY <1>1, LenProperties
<1>i. \A n \in Nat : IsFiniteSet(1..n) /\ Cardinality(1..n) = n
    BY FS_Interval
<1> DEFINE trigger == [d \in 1..Len(delivery_of) |->
                           CHOOSE t \in triggers : Key(t) = delivery_of[d]]
<1>4. \A d \in 1..Len(delivery_of) : trigger[d] \in triggers /\ Key(trigger[d]) = delivery_of[d]
    BY <1>1, <1>2, <1>3 DEF ElementsOf
<1>5. trigger \in [1..Len(delivery_of) -> triggers]
    BY <1>4
<1>6. trigger \in Injection(1..Len(delivery_of), triggers)
    <2> HIDE DEF trigger
    <2> QED
        BY <1>1, <1>3, <1>4, <1>5 DEF Injection, IsInjective, Distinct
<1>7. trigger \in Surjection(1..Len(delivery_of), triggers)
    <2>1. \A t \in triggers : \E d \in 1..Len(delivery_of) : delivery_of[d] = Key(t)
        BY <1>1, <1>2, <1>3 DEF ElementsOf
    <2> HIDE DEF trigger
    <2> QED
        BY <1>2, <1>4, <1>5, <2>1 DEF Surjection
<1>8. Cardinality(triggers) = Len(delivery_of)
    <2>1. trigger \in Bijection(1..Len(delivery_of), triggers)
        BY <1>6, <1>7 DEF Bijection
    <2>2. ExistsBijection(1..Len(delivery_of), triggers)
        BY <2>1 DEF ExistsBijection
    <2> HIDE DEF trigger
    <2> QED
        BY <1>3, <1>i, <2>2, FS_Bijection
<1> HIDE DEF trigger
<1>9. {delivery_of[d] : d \in DOMAIN delivery_of} = {Key(t) : t \in triggers}
    BY <1>1, <1>2 DEF ElementsOf
<1>10. {d \in D!Deliveries : rows[d].status # "ABSENT"} = DOMAIN delivery_of
    BY <1>1
<1> QED
    BY <1>8, <1>9, <1>10 DEF PartsAgree, PartsInv, HalvesApart

\* However many workers run, fail and overlap with requests: every trigger has
\* exactly one delivery row, and no worker is in both halves of its cycle
\* (jobs.py:157-169 and 327-328).
THEOREM PartsStayInAgreement == ClimateSpec => []PartsAgree
<1>1. PartsInv /\ [ClimateNext]_climateVars => PartsInv'
    BY PartsStep
<1> QED
    BY <1>1, PartsInit, PartsInAgreement, PTL DEF ClimateSpec

-----------------------------------------------------------------------------
(* Giving up for a reason, with one worker.                                *)

\* An attempt at row d has failed and is not recorded yet.
FailureHeld(d) == \E w \in Workers : outcome[w][d] \notin {D!Pending, 202}

Held(d) == IF FailureHeld(d) THEN 1 ELSE 0

\* The receiver has refused row d and remembers it.
Refused(d) == IF d \in failed_once THEN 1 ELSE 0

\* Every failed attempt, recorded or held, was a disturbance or the one refusal
\* that the receiver still remembers.
Explained(d) ==
    rows[d].status # "DELIVERED" => rows[d].attempt_count + Held(d) <= disturbances + Refused(d)

FailuresExplained == \A d \in D!Deliveries : Explained(d)

FailuresInv ==
    /\ PartsInv
    /\ DP!FreshInv
    /\ disturbances \in Nat
    /\ FailuresExplained

\* A step of the deployment is one of Delivery.tla or leaves its state alone.
LEMMA TwoKinds ==
    ASSUME PartsInv, [ClimateNext]_climateVars
    PROVE  DP!Next \/ (UNCHANGED deliveryVars /\ faults' \in Nat)
<1>0. faults \in Nat
    BY DEF PartsInv, DP!TypeOK
<1>1. ASSUME NEW w \in Workers, WorkerStep(w)
      PROVE  DP!Next \/ (UNCHANGED deliveryVars /\ faults' = faults)
    BY <1>1, DeliverySteps
    DEF WorkerStep, Evaluate, LoadAlerts, LoadForecasts, EndEvaluation, SkipEvaluation,
        BeginDelivery, PostToMock, Deliver
<1>2. ASSUME NEW w \in Workers, Fail(w)
      PROVE  DP!Next \/ (UNCHANGED deliveryVars /\ faults' = faults + 1)
    BY <1>2, DeliverySteps DEF Fail, CycleFails
<1>3. CASE Environment
    BY <1>0, <1>3 DEF Environment, evalVars, Ingest, Midnight
<1>4. CASE Minute
    BY <1>4, DeliverySteps DEF Minute
<1>5. CASE RestartReceiver \/ UNCHANGED climateVars
    BY <1>0, <1>5 DEF RestartReceiver, climateVars
<1> QED
    BY <1>0, <1>1, <1>2, <1>3, <1>4, <1>5 DEF ClimateNext

\* So what the only worker holds stays fresh.
LEMMA StaysFresh ==
    ASSUME DP!OneWorker, PartsInv, DP!FreshInv, [ClimateNext]_climateVars
    PROVE  DP!FreshInv'
<1>1. CASE DP!Next
    BY <1>1, Settings, DP!FreshStep
<1>2. CASE UNCHANGED deliveryVars /\ faults' \in Nat
    <2>1. DP!TypeOK'
        BY <1>2, BesideEvaluation DEF PartsInv
    <2>2. /\ rows' = rows /\ now' = now /\ pc' = pc /\ batch' = batch /\ copied' = copied
          /\ snapshot' = snapshot
        BY <1>2 DEF deliveryVars
    <2>3. DP!RowsChecked' /\ DP!RetryLimit' /\ DP!AbsentIsNew'
        BY <2>2 DEF DP!FreshInv, DP!RowsChecked, DP!RowChecks, DP!ResponseStatusHttpBounds,
           DP!AttemptCountMatchesStatus, DP!SentAtMatchesStatus, DP!DeliveredHasResult,
           DP!UndeliveredResult, DP!RetryLimit, DP!AbsentIsNew
    <2>4. DP!InFlightIsFresh' /\ DP!SnapshotIsFresh'
        BY <2>2 DEF DP!FreshInv, DP!InFlightIsFresh, DP!SnapshotIsFresh
    <2> QED
        BY <2>1, <2>3, <2>4 DEF DP!FreshInv
<1> QED
    BY <1>1, <1>2, TwoKinds

\* The numbers that are compared.
LEMMA Numbers ==
    ASSUME FailuresInv, NEW d \in D!Deliveries
    PROVE  /\ rows[d].attempt_count \in Nat /\ disturbances \in Nat
           /\ Held(d) \in {0, 1} /\ Refused(d) \in {0, 1}
           /\ Explained(d)
BY SameParts
DEF FailuresInv, PartsInv, DP!TypeOK, DP!Row, Held, Refused, FailuresExplained

\* A step that neither writes a row nor ends a post nor touches the receiver.
LEMMA QuietFailures ==
    ASSUME FailuresInv, UNCHANGED << rows, outcome, receiverVars >>
    PROVE  FailuresExplained'
<1> SUFFICES ASSUME NEW d \in D!Deliveries PROVE Explained(d)'
    BY DEF FailuresExplained, D!Deliveries
<1>1. Held(d)' = Held(d) /\ Refused(d)' = Refused(d)
    BY DEF Held, FailureHeld, Refused, receiverVars
<1> QED
    BY <1>1, Numbers DEF Explained, receiverVars

\* A row that begins has had no attempt.
LEMMA BeginFailures ==
    ASSUME FailuresInv, NEW w \in Workers, BeginDelivery(w),
           DOMAIN delivery_of' \subseteq D!Deliveries
    PROVE  FailuresExplained'
<1> SUFFICES ASSUME NEW d \in D!Deliveries PROVE Explained(d)'
    BY DEF FailuresExplained, D!Deliveries
<1>1. /\ rows'[d] = rows[d] \/ (rows[d].status = "ABSENT" /\ rows'[d] = D!PendingRow)
      /\ rows[d].status = "ABSENT" => rows[d].attempt_count = 0
    BY SameParts DEF BeginDelivery, FailuresInv, PartsInv, QueueOK, DP!FreshInv, DP!AbsentIsNew
<1>2. Held(d)' = Held(d) /\ Refused(d)' = Refused(d) /\ disturbances' = disturbances
    BY DEF BeginDelivery, D!StartCycle, Held, FailureHeld, Refused, receiverVars
<1> QED
    BY <1>1, <1>2, Numbers DEF Explained, D!PendingRow

\* A post fails when the receiver refuses it, which it then remembers, or when
\* its answer is lost.
LEMMA PostFailures ==
    ASSUME DP!OneWorker, FailuresInv, NEW w \in Workers, NEW d \in D!Deliveries, PostToMock(w, d)
    PROVE  FailuresExplained'
<1>1. D!Post(w, d) /\ rows' = rows
    BY DEF PostToMock, D!Post, D!dbVars
<1>2. /\ outcome[w][d] = D!Pending
      /\ \E res : outcome' = [outcome EXCEPT ![w][d] = res]
      /\ outcome \in [Workers -> [D!Deliveries -> DP!Outcome \cup {DP!Pending}]]
    BY <1>1, SameParts DEF D!Post, FailuresInv, PartsInv, DP!TypeOK
<1>3. \A v \in Workers, e \in D!Deliveries \ {d} : outcome'[v][e] = outcome[v][e]
    BY <1>2
<1>4. \/ outcome'[w][d] = 202 /\ failed_once' = failed_once /\ disturbances' = disturbances
      \/ d \notin failed_once /\ failed_once' = failed_once \cup {d} /\ disturbances' = disturbances
      \/ failed_once \subseteq failed_once' /\ disturbances' = disturbances + 1
    BY DEF PostToMock, Mock!AnswerTo, Mock!Receive, Mock!Refuses
<1> SUFFICES ASSUME NEW e \in D!Deliveries PROVE Explained(e)'
    BY DEF FailuresExplained, D!Deliveries
<1>n. disturbances' \in Nat /\ Refused(e)' \in {0, 1}
    BY <1>4, Numbers DEF Refused
<1>5. CASE e = d
    <2>1. Held(d) = 0 /\ Held(d)' \in {0, 1} /\ (outcome'[w][d] = 202 => Held(d)' = 0)
        BY <1>2 DEF Held, FailureHeld, DP!OneWorker
    <2>2. disturbances' + Refused(d)' >= disturbances + Refused(d) + Held(d)'
        BY <1>4, <2>1, Numbers DEF Refused
    <2> QED
        BY <1>1, <1>5, <1>n, <2>1, <2>2, Numbers DEF Explained
<1>6. CASE e # d
    <2>1. Held(e)' = Held(e)
        BY <1>3, <1>6 DEF Held, FailureHeld
    <2>2. disturbances' + Refused(e)' >= disturbances + Refused(e)
        BY <1>4, <1>6, Numbers DEF Refused
    <2> QED
        BY <1>1, <1>n, <2>1, <2>2, Numbers DEF Explained
<1> QED
    BY <1>5, <1>6

\* The only worker forgets the outcomes it holds.
LEMMA ForgetHeld ==
    ASSUME DP!OneWorker, FailuresInv, NEW w \in Workers, D!Forget(w), NEW d \in D!Deliveries
    PROVE  Held(d)' = 0
<1>1. /\ outcome' = [outcome EXCEPT ![w] = D!NoOutcomes]
      /\ outcome \in [Workers -> [D!Deliveries -> DP!Outcome \cup {DP!Pending}]]
    BY SameParts DEF D!Forget, FailuresInv, PartsInv, DP!TypeOK
<1> QED
    BY <1>1 DEF Held, FailureHeld, DP!OneWorker, D!NoOutcomes

\* A commit counts the failure it records, and no other.
LEMMA CommitFailures ==
    ASSUME DP!OneWorker, FailuresInv, NEW w \in Workers, D!Commit(w), UNCHANGED receiverVars
    PROVE  FailuresExplained'
<1> SUFFICES ASSUME NEW d \in D!Deliveries PROVE Explained(d)'
    BY DEF FailuresExplained, D!Deliveries
<1>1. /\ DP!Commit(w) /\ pc[w] = "apply"
      /\ rows'[d] = IF d \in batch[w] THEN DP!Updated(w, d) ELSE rows[d]
    BY SameCommit, SameParts DEF DP!Commit
<1>2. Held(d)' = 0 /\ Refused(d)' = Refused(d) /\ disturbances' = disturbances
    BY ForgetHeld DEF D!Commit, Refused, receiverVars
<1>3. CASE d \notin batch[w]
    BY <1>1, <1>2, <1>3, Numbers DEF Explained
<1>4. CASE d \in batch[w]
    <2>1. /\ rows[d].status \in {"PENDING", "RETRYING"} /\ rows[d] \in DP!Row
          /\ DP!Updated(w, d) = DP!Assigned(rows[d], outcome[w][d], now)
        BY <1>1, <1>4, Settings, DP!CommitWrites DEF FailuresInv
    <2>2. CASE DP!IsSuccess(outcome[w][d])
        BY <1>1, <1>4, <2>1, <2>2 DEF DP!Assigned, DP!AfterSuccess, Explained
    <2>3. CASE ~DP!IsSuccess(outcome[w][d])
        <3>1. rows'[d].attempt_count = rows[d].attempt_count + 1
            BY <1>1, <1>4, <2>1, <2>3 DEF DP!Assigned, DP!AfterFailure
        <3>2. outcome[w][d] \notin {D!Pending, 202}
            BY <1>1, <1>4, <2>3, SameParts
            DEF FailuresInv, PartsInv, DP!TypeOK, DP!LocalsOK, DP!IsSuccess
        <3>3. Held(d) = 1
            BY <3>2 DEF Held, FailureHeld
        <3> QED
            BY <1>2, <2>1, <3>1, <3>3, Numbers DEF Explained
    <2> QED
        BY <2>2, <2>3
<1> QED
    BY <1>3, <1>4

\* Every step of the deployment keeps the failures explained.
LEMMA FailuresStep ==
    ASSUME DP!OneWorker, FailuresInv, [ClimateNext]_climateVars
    PROVE  FailuresInv'
<1>1. PartsInv' /\ DP!FreshInv'
    BY PartsStep, StaysFresh DEF FailuresInv
<1>2. disturbances' \in Nat
    BY DEF FailuresInv, ClimateNext, WorkerStep, Evaluate, EndEvaluation, SkipEvaluation,
       BeginDelivery, PostToMock, Deliver, Fail, RestartReceiver, Environment, Minute,
       receiverVars, climateVars
<1>3. ASSUME NEW w \in Workers, WorkerStep(w) PROVE FailuresExplained'
    <2>1. CASE Evaluate(w)
        BY <2>1, QuietFailures DEF Evaluate, deliveryVars
    <2>2. CASE EndEvaluation(w) \/ SkipEvaluation(w)
        <3>1. DOMAIN delivery_of' \subseteq D!Deliveries
            BY <1>1 DEF PartsInv, QueueOK, D!Deliveries
        <3> QED
            BY <2>2, <3>1, BeginFailures DEF EndEvaluation, SkipEvaluation
    <2>3. CASE \E d \in D!Deliveries : PostToMock(w, d)
        BY <2>3, PostFailures
    <2>4. CASE Deliver(w)
        BY <2>4, QuietFailures, CommitFailures
        DEF Deliver, D!LoadBatch, D!FinishCycle, D!ReadBack, D!dbVars
    <2> QED
        BY <1>3, <2>1, <2>2, <2>3, <2>4 DEF WorkerStep
<1>4. ASSUME NEW w \in Workers, Fail(w) PROVE FailuresExplained'
    <2>1. CASE UNCHANGED << deliveryVars, receiverVars >>
        BY <2>1, QuietFailures DEF deliveryVars
    <2>2. CASE D!CycleFails(w) /\ UNCHANGED receiverVars
        <3> SUFFICES ASSUME NEW d \in D!Deliveries PROVE Explained(d)'
            BY DEF FailuresExplained, D!Deliveries
        <3>1. /\ rows' = rows /\ Held(d)' = 0
              /\ Refused(d)' = Refused(d) /\ disturbances' = disturbances
            BY <2>2, ForgetHeld DEF D!CycleFails, D!dbVars, Refused, receiverVars
        <3> QED
            BY <3>1, Numbers DEF Explained
    <2> QED
        BY <1>4, <2>1, <2>2 DEF Fail
<1>5. ASSUME RestartReceiver PROVE FailuresExplained'
    <2> SUFFICES ASSUME NEW d \in D!Deliveries PROVE Explained(d)'
        BY DEF FailuresExplained, D!Deliveries
    <2>1. /\ rows' = rows /\ outcome' = outcome /\ disturbances' = disturbances + 1
          /\ Refused(d)' \in {0, 1}
        BY <1>5 DEF RestartReceiver, deliveryVars, Refused
    <2>2. Held(d)' = Held(d)
        BY <2>1 DEF Held, FailureHeld
    <2> QED
        BY <2>1, <2>2, Numbers DEF Explained
<1>6. ASSUME Environment \/ Minute \/ UNCHANGED climateVars PROVE FailuresExplained'
    BY <1>6, QuietFailures
    DEF Environment, Minute, D!Tick, D!workerVars, climateVars, deliveryVars
<1> QED
    BY <1>1, <1>2, <1>3, <1>4, <1>5, <1>6 DEF FailuresInv, ClimateNext

\* At first there are no failures.
LEMMA FailuresInit == ClimateInit => FailuresInv
<1> SUFFICES ASSUME ClimateInit PROVE FailuresInv
    OBVIOUS
<1>1. PartsInv
    BY PartsInit
<1>2. DP!FreshInv
    BY SameInit, Settings, DP!FreshInit DEF ClimateInit
<1>3. \A d \in D!Deliveries : rows[d].attempt_count = 0 /\ ~FailureHeld(d)
    BY DEF ClimateInit, D!Init, D!NoRow, D!NoOutcomes, FailureHeld
<1> QED
    BY <1>1, <1>2, <1>3
    DEF ClimateInit, FailuresInv, FailuresExplained, Explained, Held, Refused

\* With one worker, the receiver's fail-first mode alone makes nobody give up: a
\* FAILED row has seen at least MaxRetries - 1 lost answers and restarts of the
\* receiver (jobs.py:273, mock_whatsapp/app.py:35-37).
THEOREM GivingUpHasAReason ==
    ASSUME DP!OneWorker
    PROVE  ClimateSpec => []GivenUpForAReason
<1>1. FailuresInv /\ [ClimateNext]_climateVars => FailuresInv'
    BY FailuresStep
<1>2. FailuresInv => GivenUpForAReason
    <2> SUFFICES ASSUME FailuresInv, NEW d \in D!Deliveries, rows[d].status = "FAILED"
                 PROVE  disturbances >= MaxRetries - 1
        BY DEF GivenUpForAReason
    <2>1. rows[d].attempt_count = MaxRetries /\ MaxRetries \in Nat
        BY SameParts, ClimateAssumption
        DEF FailuresInv, DP!FreshInv, DP!RetryLimit, D!ConstantsAssumption
    <2> QED
        BY <2>1, Numbers DEF Explained
<1> QED
    BY <1>1, <1>2, FailuresInit, PTL DEF ClimateSpec

\* What the parts promise on their own they keep together, though the models of
\* the parts let less happen to each other: one trigger per alert and forecast
\* with a true snapshot, live rules that differ, and rows that are given up at
\* the limit and recorded as they were loaded (jobs.py:144-169 and 174-280).
THEOREM PartsKeepTheirPromises ==
    ASSUME DP!OneWorker
    PROVE  ClimateSpec => [](/\ OneTriggerPerForecast /\ SnapshotsAreConsistent
                             /\ LiveRulesDiffer
                             /\ D!RetryLimit /\ D!InFlightIsFresh)
<1>1. FailuresInv /\ [ClimateNext]_climateVars => FailuresInv'
    BY FailuresStep
<1>2. FailuresInv => /\ OneTriggerPerForecast /\ SnapshotsAreConsistent /\ LiveRulesDiffer
                     /\ D!RetryLimit /\ D!InFlightIsFresh
    BY SameParts
    DEF FailuresInv, PartsInv, EvalInv, ApiInv, DP!FreshInv, D!RetryLimit, DP!RetryLimit,
        D!InFlightIsFresh, DP!InFlightIsFresh
<1> QED
    BY <1>1, <1>2, FailuresInit, PTL DEF ClimateSpec

=============================================================================
