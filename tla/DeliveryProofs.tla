--------------------------- MODULE DeliveryProofs ---------------------------
(***************************************************************************)
(* Theorems about Delivery.tla, for every value of its constants.          *)
(*                                                                         *)
(* Two groups.  The first holds for any set of workers: it rests on what   *)
(* the table's CHECKs refuse.  The second needs the one worker that the    *)
(* README assumes: then nothing changes a row between the worker's two     *)
(* sessions, what it copied is still true when it records (InFlightIsFresh *)
(* and SnapshotIsFresh), and the rest follows.                             *)
(***************************************************************************)
EXTENDS Delivery, FiniteSetTheorems, TLAPS

-----------------------------------------------------------------------------
(* Operators.                                                              *)

\* The backoff schedule always yields a positive number of minutes: reading it
\* is clamped at both ends (jobs.py:69-72).
LEMMA BackoffPositive ==
    ASSUME NEW attempt \in Nat
    PROVE  BackoffMinutes(attempt) \in Nat \ {0}
<1>1. Len(Backoff) \in Nat \ {0}
    BY ConstantsAssumption
<1>2. \A i \in 1..Len(Backoff) : Backoff[i] \in Nat \ {0}
    BY ConstantsAssumption
<1> QED
    BY <1>1, <1>2 DEF BackoffMinutes

\* What the loop body assigns is a row.
LEMMA AssignedType ==
    ASSUME NEW r \in Row, NEW res \in Outcome, NEW t \in Nat
    PROVE  Assigned(r, res, t) \in Row
<1>1. StatusOf(res) \in Answers \cup {Null}
    BY DEF StatusOf, Outcome
<1>2. BackoffMinutes(r.attempt_count + 1) \in Nat
    BY BackoffPositive DEF Row
<1> QED
    BY <1>1, <1>2 DEF Assigned, AfterSuccess, AfterFailure, Row, Statuses, Outcome

\* So is what its UPDATE leaves.
LEMMA WrittenType ==
    ASSUME NEW current \in Row, NEW r \in Row, NEW res \in Outcome, NEW t \in Nat
    PROVE  Written(current, r, res, t) \in Row
BY AssignedType DEF Written, Column, Row

\* With nothing written between the two reads, the UPDATE leaves the row as
\* the loop body assigned it.
LEMMA WrittenFresh ==
    ASSUME NEW r \in Row, NEW res \in Outcome, NEW t \in Nat
    PROVE  Written(r, r, res, t) = Assigned(r, res, t)
BY DEF Written, Column, Assigned, AfterSuccess, AfterFailure, Row

\* A row whose sent_at is set keeps it, whatever was read and assigned.
LEMMA SentAtStays ==
    ASSUME NEW current \in Row, NEW r \in Row, NEW res, NEW t, current.sent_at
    PROVE  Written(current, r, res, t).sent_at
BY DEF Written, Column, Assigned, AfterSuccess, AfterFailure, Row

-----------------------------------------------------------------------------
(* Type correctness.                                                       *)

\* The locals of a cycle keep their types when they are dropped.
LEMMA ForgetType ==
    ASSUME TypeOK, NEW w \in Workers, Forget(w)
    PROVE  /\ batch' \in [Workers -> SUBSET Deliveries]
           /\ copied' \in [Workers -> [Deliveries -> Nat]]
           /\ outcome' \in [Workers -> [Deliveries -> Outcome \cup {Pending}]]
           /\ snapshot' \in [Workers -> [Deliveries -> Row]]
           /\ batch'[w] = {} /\ outcome'[w] = NoOutcomes
           /\ \A v \in Workers \ {w} : /\ batch'[v] = batch[v]
                                       /\ outcome'[v] = outcome[v]
                                       /\ snapshot'[v] = snapshot[v]
                                       /\ copied'[v] = copied[v]
<1>1. NoSnapshot \in [Deliveries -> Row]
    BY DEF NoSnapshot, NoRow, Row, Statuses
<1>2. NoCopies \in [Deliveries -> Nat] /\ NoOutcomes \in [Deliveries -> Outcome \cup {Pending}]
    BY DEF NoCopies, NoOutcomes
<1> QED
    BY <1>1, <1>2 DEF TypeOK, Forget

\* A worker that drops its locals and leaves "post" or "apply" keeps LocalsOK.
LEMMA ForgetLocals ==
    ASSUME TypeOK, NEW w \in Workers, Forget(w),
           NEW where \in {"asleep", "load"}, pc' = [pc EXCEPT ![w] = where]
    PROVE  LocalsOK'
<1> SUFFICES ASSUME NEW v \in Workers
             PROVE  /\ pc'[v] \in {"asleep", "load"} => batch'[v] = {}
                    /\ \A d \in Deliveries : outcome'[v][d] # Pending => d \in batch'[v]
                    /\ pc'[v] = "apply" => \A d \in batch'[v] : outcome'[v][d] # Pending
    BY DEF LocalsOK
<1>1. CASE v = w
    <2>1. pc'[w] = where /\ batch'[w] = {} /\ outcome'[w] = NoOutcomes
        BY ForgetType DEF TypeOK
    <2> QED
        BY <1>1, <2>1 DEF NoOutcomes
<1>2. CASE v # w
    <2>1. pc'[v] = pc[v] /\ batch'[v] = batch[v] /\ outcome'[v] = outcome[v]
        BY <1>2, ForgetType DEF TypeOK
    <2> QED
        BY <2>1 DEF TypeOK, LocalsOK
<1> QED
    BY <1>1, <1>2

\* A commit writes rows.
LEMMA CommitType ==
    ASSUME TypeOK, NEW w \in Workers, Commit(w)
    PROVE  rows' \in [Deliveries -> Row]
<1>1. ASSUME NEW d \in batch[w] PROVE Updated(w, d) \in Row
    <2>1. d \in Deliveries /\ outcome[w][d] \in Outcome
        BY DEF TypeOK, LocalsOK, Commit
    <2>2. rows[d] \in Row /\ snapshot[w][d] \in Row /\ now \in Nat
        BY <2>1 DEF TypeOK
    <2> QED
        BY <2>1, <2>2, WrittenType DEF Updated, ResultFor
<1> QED
    BY <1>1 DEF Commit, TypeOK

\* The initial state has the types and an idle worker's locals.
LEMMA TypeInit == Init => TypeOK
<1> SUFFICES ASSUME Init PROVE TypeOK
    OBVIOUS
<1>1. NoRow \in Row
    BY DEF NoRow, Row, Statuses
<1>2. NoSnapshot \in [Deliveries -> Row] /\ NoCopies \in [Deliveries -> Nat]
    BY <1>1 DEF NoSnapshot, NoCopies
<1>3. NoOutcomes \in [Deliveries -> Outcome \cup {Pending}]
    BY DEF NoOutcomes
<1> QED
    BY <1>1, <1>2, <1>3 DEF Init, TypeOK, LocalsOK, NoOutcomes

\* Every step of every worker, of the receiver and of the clock keeps the types
\* and what a worker holds in each phase of its cycle.
LEMMA TypeStep == TypeOK /\ [Next]_vars => TypeOK'
<1> SUFFICES ASSUME TypeOK, [Next]_vars PROVE TypeOK'
    OBVIOUS
<1> USE DEF dbVars, workerVars, receiverVars
<1>1. ASSUME NEW w \in Workers, StartCycle(w) PROVE TypeOK'
    <2>1. PendingRow \in Row
        BY DEF PendingRow, Row, Statuses, TypeOK
    <2> QED
        BY <1>1, <2>1 DEF StartCycle, TypeOK, LocalsOK
<1>2. ASSUME NEW w \in Workers, LoadBatch(w) PROVE TypeOK'
    <2>1. NextBatch \subseteq Deliveries
        BY DEF NextBatch, Due
    <2>2. [d \in Deliveries |-> IF d \in NextBatch THEN rows[d].attempt_count ELSE 0]
              \in [Deliveries -> Nat]
        BY DEF TypeOK, Row
    <2> QED
        BY <1>2, <2>1, <2>2 DEF LoadBatch, TypeOK, LocalsOK
<1>3. ASSUME NEW w \in Workers, FinishCycle(w) PROVE TypeOK'
    BY <1>3 DEF FinishCycle, TypeOK, LocalsOK
<1>4. ASSUME NEW w \in Workers, NEW d \in Deliveries, Post(w, d) PROVE TypeOK'
    <2>1. PayloadAttempt(w, d) \in Nat
        BY DEF PayloadAttempt, TypeOK
    <2>2. PICK res \in Outcome : outcome' = [outcome EXCEPT ![w][d] = res]
        BY <1>4 DEF Post
    <2>3. outcome' \in [Workers -> [Deliveries -> Outcome \cup {Pending}]]
        BY <2>2 DEF TypeOK
    <2>4. accepted' \subseteq Deliveries /\ faults' \in Nat
        BY <1>4 DEF Post, TypeOK
    <2>6. LocalsOK'
        <3>1. \A v \in Workers, e \in Deliveries :
                  outcome'[v][e] = IF v = w /\ e = d THEN res ELSE outcome[v][e]
            BY <2>2 DEF TypeOK
        <3>2. pc' = pc /\ batch' = batch /\ d \in batch[w] /\ pc[w] = "post"
            BY <1>4 DEF Post
        <3>3. pc \in [Workers -> {"asleep", "load", "post", "apply"}] /\ LocalsOK
            BY DEF TypeOK
        <3>4. \A v \in Workers : pc[v] = "apply" =>
                  \A e \in batch[v] : e \in Deliveries /\ v # w
            BY <3>2 DEF TypeOK
        <3> QED
            BY <3>1, <3>2, <3>3, <3>4 DEF LocalsOK
    <2>5. /\ posts' \in [Deliveries -> Nat]
          /\ seen' \in [Deliveries -> SUBSET Nat]
        BY <1>4, <2>1 DEF Post, TypeOK
    <2> QED
        BY <1>4, <2>3, <2>4, <2>5, <2>6 DEF Post, TypeOK
<1>5. ASSUME NEW w \in Workers, GatherRaises(w) PROVE TypeOK'
    <2>1. {<<d, PayloadAttempt(w, d)>> : d \in batch[w] \ Poison} \subseteq Deliveries \X Nat
        BY DEF PayloadAttempt, TypeOK
    <2> QED
        BY <1>5, <2>1, ForgetType, ForgetLocals DEF GatherRaises, TypeOK
<1>6. CASE OrphanArrives
    BY <1>6 DEF OrphanArrives, TypeOK, LocalsOK
<1>7. ASSUME NEW w \in Workers, ReadBack(w) PROVE TypeOK'
    <2>1. NoRow \in Row
        BY DEF NoRow, Row, Statuses
    <2>2. snapshot' \in [Workers -> [Deliveries -> Row]]
        BY <1>7, <2>1 DEF ReadBack, TypeOK
    <2> QED
        BY <1>7, <2>2 DEF ReadBack, TypeOK, LocalsOK
<1>8. ASSUME NEW w \in Workers, Commit(w) PROVE TypeOK'
    BY <1>8, CommitType, ForgetType, ForgetLocals DEF Commit, TypeOK
<1>9. ASSUME NEW w \in Workers, Rollback(w) PROVE TypeOK'
    BY <1>9, ForgetType, ForgetLocals DEF Rollback, TypeOK
<1>10. ASSUME NEW w \in Workers, CycleFails(w) PROVE TypeOK'
    <2>1. Forget(w) /\ pc' = [pc EXCEPT ![w] = "asleep"] /\ faults' = faults + 1
        BY <1>10 DEF CycleFails
    <2>2. LocalsOK'
        BY <2>1, ForgetLocals
    <2> QED
        BY <1>10, <2>1, <2>2, ForgetType DEF CycleFails, TypeOK
<1>11. CASE Tick
    BY <1>11 DEF Tick, TypeOK, LocalsOK
<1>12. CASE UNCHANGED vars
    BY <1>12 DEF vars, TypeOK, LocalsOK
<1> QED
    BY <1>1, <1>2, <1>3, <1>4, <1>5, <1>6, <1>7, <1>8, <1>9, <1>10, <1>11, <1>12 DEF Next, WorkerStep

\* Every row, batch and counter keeps its type and its shape.
THEOREM TypeCorrect == Spec => []TypeOK
BY TypeInit, TypeStep, PTL DEF Spec

-----------------------------------------------------------------------------
(* Any number of workers.                                                  *)

\* A successful result in memory means that the receiver took the notification.
AnswersTaken ==
    \A w \in Workers : \A d \in batch[w] : IsSuccess(outcome[w][d]) => d \in accepted

\* Every stored row satisfies the CHECKs.
RowsChecked ==
    \A d \in Deliveries : rows[d].status # "ABSENT" => RowChecks(rows[d])

AcceptedInv == TypeOK /\ AnswersTaken /\ RowsChecked /\ DeliveredWasAccepted

\* Nothing is stored and nothing is held at first.
LEMMA AcceptedInit == Init => AcceptedInv
<1> SUFFICES ASSUME Init PROVE AcceptedInv
    OBVIOUS
<1>1. TypeOK
    BY TypeInit
<1>2. AnswersTaken /\ RowsChecked /\ DeliveredWasAccepted
    BY DEF Init, AnswersTaken, RowsChecked, DeliveredWasAccepted, NoRow
<1> QED
    BY <1>1, <1>2 DEF AcceptedInv

\* Dropping a batch leaves no result to answer for.
LEMMA ForgetAnswers ==
    ASSUME TypeOK, AnswersTaken, NEW w \in Workers, Forget(w), accepted' = accepted
    PROVE  AnswersTaken'
BY ForgetType DEF AnswersTaken

\* With the table and the receiver as they were, the row parts carry over.
LEMMA RowsUnchanged ==
    ASSUME RowsChecked, DeliveredWasAccepted, rows' = rows, accepted \subseteq accepted'
    PROVE  RowsChecked' /\ DeliveredWasAccepted'
BY DEF RowsChecked, DeliveredWasAccepted, RowChecks, ResponseStatusHttpBounds,
       AttemptCountMatchesStatus, SentAtMatchesStatus, DeliveredHasResult, UndeliveredResult

\* A commit marks DELIVERED only rows with a successful result.
LEMMA CommitAccepted ==
    ASSUME AcceptedInv, NEW w \in Workers, Commit(w)
    PROVE  RowsChecked' /\ DeliveredWasAccepted'
<1>1. accepted' = accepted
    BY DEF Commit, receiverVars
<1>2. \A d \in Deliveries : rows'[d] = IF d \in batch[w] THEN Updated(w, d) ELSE rows[d]
    BY DEF Commit
<1>3. ASSUME NEW d \in batch[w]
      PROVE  /\ RowChecks(Updated(w, d))
             /\ Updated(w, d).status = "DELIVERED" =>
                    rows[d].status = "DELIVERED" \/ IsSuccess(outcome[w][d])
    BY DEF Commit, Storable, Updated, ResultFor, Written, Column, Assigned, AfterFailure
<1>4. RowsChecked'
    <2> SUFFICES ASSUME NEW d \in Deliveries, rows'[d].status # "ABSENT"
                 PROVE  RowChecks(rows'[d])
        BY DEF RowsChecked, RowChecks, ResponseStatusHttpBounds, AttemptCountMatchesStatus,
               SentAtMatchesStatus, DeliveredHasResult, UndeliveredResult
    <2> QED
        BY <1>2, <1>3 DEF AcceptedInv, RowsChecked
<1>5. DeliveredWasAccepted'
    <2> SUFFICES ASSUME NEW d \in Deliveries, rows'[d].status = "DELIVERED"
                 PROVE  d \in accepted
        BY <1>1 DEF DeliveredWasAccepted
    <2> QED
        BY <1>2, <1>3 DEF AcceptedInv, AnswersTaken, DeliveredWasAccepted
<1> QED
    BY <1>4, <1>5

\* Every step keeps the stored rows within the CHECKs and honest about the receiver.
LEMMA AcceptedStep == AcceptedInv /\ [Next]_vars => AcceptedInv'
<1> SUFFICES ASSUME AcceptedInv, [Next]_vars PROVE AcceptedInv'
    OBVIOUS
<1> USE DEF dbVars, workerVars, receiverVars
<1>t. TypeOK /\ TypeOK'
    BY TypeStep DEF AcceptedInv
<1>1. ASSUME NEW w \in Workers, StartCycle(w) PROVE AcceptedInv'
    <2>1. PICK new \in SUBSET {d \in Deliveries : rows[d].status = "ABSENT"} :
              rows' = [d \in Deliveries |-> IF d \in new THEN PendingRow ELSE rows[d]]
        BY <1>1 DEF StartCycle
    <2>2. RowChecks(PendingRow) /\ PendingRow.status # "DELIVERED"
        BY DEF PendingRow, RowChecks, ResponseStatusHttpBounds, AttemptCountMatchesStatus,
               SentAtMatchesStatus, DeliveredHasResult, UndeliveredResult
    <2>3. accepted' = accepted /\ batch' = batch /\ outcome' = outcome
        BY <1>1 DEF StartCycle
    <2>4. \A d \in Deliveries : rows'[d] = PendingRow \/ rows'[d] = rows[d]
        BY <2>1
    <2>5. RowsChecked'
        <3> SUFFICES ASSUME NEW d \in Deliveries, rows'[d].status # "ABSENT"
                     PROVE  RowChecks(rows'[d])
            BY DEF RowsChecked, RowChecks, ResponseStatusHttpBounds,
                   AttemptCountMatchesStatus, SentAtMatchesStatus, DeliveredHasResult,
                   UndeliveredResult
        <3> QED
            BY <2>2, <2>4 DEF AcceptedInv, RowsChecked
    <2>6. DeliveredWasAccepted' /\ AnswersTaken'
        BY <2>2, <2>3, <2>4 DEF AcceptedInv, DeliveredWasAccepted, AnswersTaken
    <2> QED
        BY <1>t, <2>5, <2>6 DEF AcceptedInv
<1>2. ASSUME NEW w \in Workers, LoadBatch(w) PROVE AcceptedInv'
    <2>1. rows' = rows /\ accepted' = accepted /\ outcome' = outcome
        BY <1>2 DEF LoadBatch
    <2>2. \A d \in Deliveries : outcome[w][d] = Pending
        BY <1>2, <1>t DEF LoadBatch, TypeOK, LocalsOK
    <2>3. \A v \in Workers : v # w => batch'[v] = batch[v]
        BY <1>2, <1>t DEF LoadBatch, TypeOK
    <2>4. batch'[w] \subseteq Deliveries
        BY <1>t DEF TypeOK
    <2>5. ~IsSuccess(Pending)
        BY DEF IsSuccess, Pending
    <2>6. AnswersTaken'
        BY <2>1, <2>2, <2>3, <2>4, <2>5 DEF AcceptedInv, AnswersTaken
    <2> QED
        BY <1>t, <2>1, <2>6, RowsUnchanged DEF AcceptedInv
<1>3. ASSUME NEW w \in Workers, FinishCycle(w) PROVE AcceptedInv'
    BY <1>3, <1>t, RowsUnchanged DEF FinishCycle, AcceptedInv, AnswersTaken
<1>4. ASSUME NEW w \in Workers, NEW d \in Deliveries, Post(w, d) PROVE AcceptedInv'
    <2>1. PICK res \in Outcome :
              /\ outcome' = [outcome EXCEPT ![w][d] = res]
              /\ \/ IsSuccess(res) /\ accepted' = accepted \cup {d}
                 \/ res = NoAnswer /\ accepted' \in {accepted, accepted \cup {d}}
                 \/ ~IsSuccess(res) /\ res # NoAnswer /\ accepted' = accepted
        BY <1>4 DEF Post
    <2>2. rows' = rows /\ batch' = batch
        BY <1>4 DEF Post
    <2>3. accepted \subseteq accepted'
        BY <2>1
    <2>4. IsSuccess(res) => d \in accepted'
        BY <2>1 DEF IsSuccess, NoAnswer
    <2>5. \A v \in Workers, e \in Deliveries :
              outcome'[v][e] = IF v = w /\ e = d THEN res ELSE outcome[v][e]
        BY <1>t, <2>1 DEF TypeOK
    <2>6. \A v \in Workers : batch[v] \subseteq Deliveries
        BY <1>t DEF TypeOK
    <2>7. AnswersTaken'
        BY <2>2, <2>3, <2>4, <2>5, <2>6 DEF AcceptedInv, AnswersTaken
    <2> QED
        BY <1>t, <2>2, <2>3, <2>7, RowsUnchanged DEF AcceptedInv
<1>5. ASSUME NEW w \in Workers, GatherRaises(w) PROVE AcceptedInv'
    BY <1>5, <1>t, RowsUnchanged, ForgetAnswers DEF GatherRaises, AcceptedInv
<1>6. CASE OrphanArrives
    <2>1. rows' = rows /\ batch' = batch /\ outcome' = outcome /\ accepted \subseteq accepted'
        BY <1>6 DEF OrphanArrives
    <2> QED
        BY <1>t, <2>1, RowsUnchanged DEF AcceptedInv, AnswersTaken
<1>7. ASSUME NEW w \in Workers, ReadBack(w) PROVE AcceptedInv'
    BY <1>7, <1>t, RowsUnchanged DEF ReadBack, AcceptedInv, AnswersTaken
<1>8. ASSUME NEW w \in Workers, Commit(w) PROVE AcceptedInv'
    BY <1>8, <1>t, CommitAccepted, ForgetAnswers DEF Commit, AcceptedInv
<1>9. ASSUME NEW w \in Workers, Rollback(w) PROVE AcceptedInv'
    BY <1>9, <1>t, RowsUnchanged, ForgetAnswers DEF Rollback, AcceptedInv
<1>10. ASSUME NEW w \in Workers, CycleFails(w) PROVE AcceptedInv'
    BY <1>10, <1>t, RowsUnchanged, ForgetAnswers DEF CycleFails, AcceptedInv
<1>11. CASE Tick
    BY <1>11, <1>t, RowsUnchanged DEF Tick, AcceptedInv, AnswersTaken
<1>12. CASE UNCHANGED vars
    BY <1>12, <1>t, RowsUnchanged DEF vars, AcceptedInv, AnswersTaken
<1> QED
    BY <1>1, <1>2, <1>3, <1>4, <1>5, <1>6, <1>7, <1>8, <1>9, <1>10, <1>11, <1>12 DEF Next, WorkerStep

\* Whatever fails and however many workers run, a row says DELIVERED only if the
\* receiver took its notification (jobs.py:264-270).
THEOREM Accepted == Spec => []DeliveredWasAccepted
<1>1. AcceptedInv => DeliveredWasAccepted
    BY DEF AcceptedInv
<1> QED
    BY <1>1, AcceptedInit, AcceptedStep, PTL DEF Spec

\* Whatever fails and however many workers run, a DELIVERED row stays DELIVERED
\* (notifications/models.py:33-37).
THEOREM DeliveredStays == Spec => DeliveredStaysDelivered
<1>1. AcceptedInv /\ [Next]_vars =>
          [\A d \in Deliveries : rows[d].status = "DELIVERED" => rows'[d].status = "DELIVERED"]_vars
    <2> SUFFICES ASSUME AcceptedInv, Next, NEW d \in Deliveries, rows[d].status = "DELIVERED"
                 PROVE  rows'[d].status = "DELIVERED"
        BY DEF vars
    <2> USE DEF dbVars
    <2>1. ASSUME NEW w \in Workers, StartCycle(w) PROVE rows'[d].status = "DELIVERED"
        BY <2>1 DEF StartCycle
    <2>2. ASSUME NEW w \in Workers, Commit(w) PROVE rows'[d].status = "DELIVERED"
        <3>1. CASE d \in batch[w]
            <4>1. rows[d] \in Row /\ snapshot[w][d] \in Row
                BY DEF AcceptedInv, TypeOK
            <4>2. rows[d].sent_at
                BY DEF AcceptedInv, RowsChecked, RowChecks, SentAtMatchesStatus
            <4>3. Updated(w, d).sent_at
                BY <4>1, <4>2, SentAtStays DEF Updated
            <4>4. RowChecks(Updated(w, d))
                BY <2>2, <3>1 DEF Commit, Storable
            <4>5. rows'[d] = Updated(w, d)
                BY <2>2, <3>1 DEF Commit
            <4> QED
                BY <4>3, <4>4, <4>5 DEF RowChecks, SentAtMatchesStatus
        <3>2. CASE d \notin batch[w]
            BY <2>2, <3>2 DEF Commit
        <3> QED
            BY <3>1, <3>2
    <2>3. CASE rows' = rows
        BY <2>3
    <2> QED
        BY <2>1, <2>2, <2>3 DEF Next, WorkerStep, LoadBatch, FinishCycle, Post, GatherRaises, OrphanArrives,
           ReadBack, Rollback, CycleFails, Tick
<1> QED
    BY <1>1, AcceptedInit, AcceptedStep, PTL DEF Spec, DeliveredStaysDelivered

-----------------------------------------------------------------------------
(* Any finite number of workers: counted attempts are backed by posts.     *)

UnrecordedBy(d) == {w \in Workers : Unrecorded(w, d)}

\* Also what a worker read back is backed, apart from what it is about to add.
BackedInv ==
    /\ TypeOK
    /\ AttemptsBackedByPosts
    /\ \A w \in Workers : pc[w] = "apply" =>
           \A d \in batch[w] :
               snapshot[w][d].attempt_count + UnrecordedCount(d) <= posts[d]

\* With finitely many workers, the unrecorded outcomes of a row are a number.
LEMMA CountType ==
    ASSUME IsFiniteSet(Workers), NEW d \in Deliveries
    PROVE  UnrecordedCount(d) \in Nat /\ UnrecordedCount(d) = Cardinality(UnrecordedBy(d))
<1>1. IsFiniteSet(UnrecordedBy(d))
    BY FS_Subset DEF UnrecordedBy
<1> QED
    BY <1>1, FS_CardinalityType DEF UnrecordedBy, UnrecordedCount

\* Loading a batch adds no result.
LEMMA SameCount ==
    ASSUME IsFiniteSet(Workers), TypeOK, outcome' = outcome,
           NEW w \in Workers, \A v \in Workers \ {w} : batch'[v] = batch[v],
           batch'[w] = batch[w] \/ pc[w] = "load",
           NEW d \in Deliveries
    PROVE  UnrecordedCount(d)' = UnrecordedCount(d)
<1>1. \A v \in Workers : Unrecorded(v, d)' <=> Unrecorded(v, d)
    BY DEF Unrecorded, TypeOK, LocalsOK
<1> QED
    BY <1>1 DEF UnrecordedCount

\* The end of a post adds its worker.
LEMMA PostCount ==
    ASSUME IsFiniteSet(Workers), TypeOK, NEW w \in Workers, NEW d \in Deliveries, Post(w, d),
           NEW e \in Deliveries
    PROVE  UnrecordedCount(e)' = UnrecordedCount(e) + (IF e = d THEN 1 ELSE 0)
<1>1. PICK res \in Outcome : outcome' = [outcome EXCEPT ![w][d] = res]
    BY DEF Post
<1>2. \A v \in Workers : outcome'[v][e] = IF v = w /\ e = d THEN res ELSE outcome[v][e]
    BY <1>1 DEF TypeOK
<1>3. res # Pending
    BY ConstantsAssumption DEF Outcome, NoAnswer, Pending
<1>4. UnrecordedBy(e)' = IF e = d THEN UnrecordedBy(e) \cup {w} ELSE UnrecordedBy(e)
    BY <1>2, <1>3 DEF UnrecordedBy, Unrecorded, Post
<1>5. w \notin UnrecordedBy(d)
    BY DEF UnrecordedBy, Unrecorded, Post
<1>6. IsFiniteSet(UnrecordedBy(e))
    BY FS_Subset DEF UnrecordedBy
<1>7. Cardinality(UnrecordedBy(e)) \in Nat
    BY <1>6, FS_CardinalityType
<1>8. Cardinality(UnrecordedBy(e)') = Cardinality(UnrecordedBy(e)) + (IF e = d THEN 1 ELSE 0)
    <2>1. CASE e = d
        <3>1. Cardinality(UnrecordedBy(d) \cup {w}) = Cardinality(UnrecordedBy(d)) + 1
            BY <2>1, <1>5, <1>6, FS_AddElement
        <3> QED
            BY <2>1, <3>1, <1>4
    <2>2. CASE e # d
        BY <2>2, <1>4, <1>7
    <2> QED
        BY <2>1, <2>2
<1> QED
    BY <1>8 DEF UnrecordedCount, UnrecordedBy

\* Dropping a batch takes its worker out.
LEMMA ForgetCount ==
    ASSUME IsFiniteSet(Workers), TypeOK, NEW w \in Workers, Forget(w), NEW d \in Deliveries
    PROVE  UnrecordedCount(d)' = UnrecordedCount(d) - (IF Unrecorded(w, d) THEN 1 ELSE 0)
<1>1. UnrecordedBy(d)' = UnrecordedBy(d) \ {w}
    BY ForgetType DEF UnrecordedBy, Unrecorded
<1>2. IsFiniteSet(UnrecordedBy(d))
    BY FS_Subset DEF UnrecordedBy
<1>3. Cardinality(UnrecordedBy(d)') =
          IF w \in UnrecordedBy(d) THEN Cardinality(UnrecordedBy(d)) - 1
                                   ELSE Cardinality(UnrecordedBy(d))
    BY <1>1, <1>2, FS_RemoveElement
<1>4. Cardinality(UnrecordedBy(d)) \in Nat
    BY <1>2, FS_CardinalityType
<1> QED
    BY <1>3, <1>4 DEF UnrecordedCount, UnrecordedBy

\* No step counts an attempt that no post backs: a post raises both sides, a
\* commit moves one from memory to the table, a second commit loses one.
LEMMA BackedStep ==
    ASSUME IsFiniteSet(Workers), BackedInv, [Next]_vars
    PROVE  BackedInv'
<1> USE DEF dbVars, workerVars, receiverVars
<1>t. TypeOK /\ TypeOK'
    BY TypeStep DEF BackedInv
<1>c. \A d \in Deliveries : UnrecordedCount(d) \in Nat
    BY CountType
<1>p. \A d \in Deliveries : rows[d].attempt_count \in Nat /\ posts[d] \in Nat
    BY <1>t DEF TypeOK, Row
<1>q. \A w \in Workers, d \in Deliveries : snapshot[w][d].attempt_count \in Nat
    BY <1>t DEF TypeOK, Row
<1>b. \A w \in Workers : batch[w] \subseteq Deliveries
    BY <1>t DEF TypeOK
<1>1. ASSUME NEW w \in Workers, StartCycle(w) PROVE BackedInv'
    <2>1. \A d \in Deliveries : UnrecordedCount(d)' = UnrecordedCount(d)
        BY <1>1, <1>t, SameCount DEF StartCycle
    <2>2. posts' = posts /\ batch' = batch /\ snapshot' = snapshot
        BY <1>1 DEF StartCycle
    <2>3. \A v \in Workers : pc'[v] = "apply" => pc[v] = "apply"
        BY <1>1, <1>t DEF StartCycle, TypeOK
    <2>4. \A d \in Deliveries : rows'[d].attempt_count \in {0, rows[d].attempt_count}
        BY <1>1 DEF StartCycle, PendingRow
    <2>5. AttemptsBackedByPosts'
        BY <1>c, <1>p, <2>1, <2>2, <2>4 DEF BackedInv, AttemptsBackedByPosts
    <2>6. \A v \in Workers : pc'[v] = "apply" =>
              \A e \in batch'[v] :
                  snapshot'[v][e].attempt_count + UnrecordedCount(e)' <= posts'[e]
        BY <1>b, <2>1, <2>2, <2>3 DEF BackedInv
    <2> QED
        BY <1>t, <2>5, <2>6 DEF BackedInv
<1>2. ASSUME NEW w \in Workers, LoadBatch(w) PROVE BackedInv'
    <2>1. \A v \in Workers \ {w} : batch'[v] = batch[v] /\ (pc'[v] = pc[v])
        BY <1>2, <1>t DEF LoadBatch, TypeOK
    <2>2. \A d \in Deliveries : UnrecordedCount(d)' = UnrecordedCount(d)
        BY <1>2, <1>t, <2>1, SameCount DEF LoadBatch
    <2>3. posts' = posts /\ rows' = rows /\ snapshot' = snapshot /\ pc'[w] = "post"
        BY <1>2, <1>t DEF LoadBatch, TypeOK
    <2> QED
        BY <1>t, <1>b, <2>1, <2>2, <2>3 DEF BackedInv, AttemptsBackedByPosts
<1>3. ASSUME NEW w \in Workers, FinishCycle(w) PROVE BackedInv'
    <2>1. \A d \in Deliveries : UnrecordedCount(d)' = UnrecordedCount(d)
        BY <1>3, <1>t, SameCount DEF FinishCycle
    <2>2. \A v \in Workers : pc'[v] = "apply" => pc[v] = "apply"
        BY <1>3, <1>t DEF FinishCycle, TypeOK
    <2> QED
        BY <1>3, <1>t, <1>b, <2>1, <2>2 DEF FinishCycle, BackedInv, AttemptsBackedByPosts
<1>4. ASSUME NEW w \in Workers, NEW d \in Deliveries, Post(w, d) PROVE BackedInv'
    <2>1. \A e \in Deliveries :
              UnrecordedCount(e)' = UnrecordedCount(e) + (IF e = d THEN 1 ELSE 0)
        BY <1>4, <1>t, PostCount
    <2>2. \A e \in Deliveries : posts'[e] = posts[e] + (IF e = d THEN 1 ELSE 0)
        BY <1>4, <1>p, <1>t DEF Post, TypeOK
    <2>3. rows' = rows /\ batch' = batch /\ snapshot' = snapshot /\ pc' = pc
        BY <1>4 DEF Post
    <2>4. AttemptsBackedByPosts'
        BY <1>c, <1>p, <2>1, <2>2, <2>3 DEF BackedInv, AttemptsBackedByPosts
    <2>5. \A v \in Workers : pc'[v] = "apply" =>
              \A e \in batch'[v] :
                  snapshot'[v][e].attempt_count + UnrecordedCount(e)' <= posts'[e]
        BY <1>c, <1>p, <1>q, <1>b, <2>1, <2>2, <2>3 DEF BackedInv
    <2> QED
        BY <1>t, <2>4, <2>5 DEF BackedInv
<1>f. ASSUME NEW w \in Workers, Forget(w), rows' = rows, posts' = posts,
             NEW where \in {"asleep", "load"}, pc' = [pc EXCEPT ![w] = where]
      PROVE  BackedInv'
    <2>1. \A e \in Deliveries : UnrecordedCount(e)' <= UnrecordedCount(e)
                                /\ UnrecordedCount(e)' \in Int
        BY <1>f, <1>t, <1>c, ForgetCount
    <2>2. \A v \in Workers : pc'[v] = "apply" =>
              v # w /\ pc[v] = "apply" /\ batch'[v] = batch[v] /\ snapshot'[v] = snapshot[v]
        BY <1>f, <1>t, ForgetType DEF TypeOK
    <2>3. AttemptsBackedByPosts'
        BY <1>f, <1>c, <1>p, <2>1 DEF BackedInv, AttemptsBackedByPosts
    <2>4. \A v \in Workers : pc'[v] = "apply" =>
              \A e \in batch'[v] :
                  snapshot'[v][e].attempt_count + UnrecordedCount(e)' <= posts'[e]
        BY <1>f, <1>c, <1>p, <1>q, <1>b, <2>1, <2>2 DEF BackedInv
    <2> QED
        BY <1>t, <2>3, <2>4 DEF BackedInv
<1>5. ASSUME NEW w \in Workers, GatherRaises(w) PROVE BackedInv'
    BY <1>5, <1>f DEF GatherRaises
<1>6. CASE OrphanArrives
    <2>1. \A d \in Deliveries : UnrecordedCount(d)' = UnrecordedCount(d)
        BY <1>6 DEF OrphanArrives, UnrecordedCount, Unrecorded
    <2> QED
        BY <1>6, <1>t, <1>b, <2>1 DEF OrphanArrives, BackedInv, AttemptsBackedByPosts
<1>7. ASSUME NEW w \in Workers, ReadBack(w) PROVE BackedInv'
    <2>1. \A d \in Deliveries : UnrecordedCount(d)' = UnrecordedCount(d)
        BY <1>7, <1>t, SameCount DEF ReadBack
    <2>2. rows' = rows /\ posts' = posts /\ batch' = batch
        BY <1>7 DEF ReadBack
    <2>3. \A d \in batch[w] : snapshot'[w][d] = rows[d]
        BY <1>7, <1>t DEF ReadBack, TypeOK
    <2>4. \A v \in Workers \ {w} : snapshot'[v] = snapshot[v] /\ pc'[v] = pc[v]
        BY <1>7, <1>t DEF ReadBack, TypeOK
    <2>5. AttemptsBackedByPosts'
        BY <2>1, <2>2 DEF BackedInv, AttemptsBackedByPosts
    <2>6. \A v \in Workers : pc'[v] = "apply" =>
              \A e \in batch'[v] :
                  snapshot'[v][e].attempt_count + UnrecordedCount(e)' <= posts'[e]
        BY <1>b, <2>1, <2>2, <2>3, <2>4 DEF BackedInv, AttemptsBackedByPosts
    <2> QED
        BY <1>t, <2>5, <2>6 DEF BackedInv
<1>8. ASSUME NEW w \in Workers, Commit(w) PROVE BackedInv'
    <2>1. Forget(w) /\ pc' = [pc EXCEPT ![w] = "load"] /\ posts' = posts /\ pc[w] = "apply"
        BY <1>8 DEF Commit
    <2>2. \A e \in Deliveries :
              UnrecordedCount(e)' = UnrecordedCount(e) - (IF Unrecorded(w, e) THEN 1 ELSE 0)
        BY <1>t, <2>1, ForgetCount
    <2>3. \A e \in batch[w] : Unrecorded(w, e)
        BY <1>t, <2>1 DEF Unrecorded, TypeOK, LocalsOK
    <2>4. \A v \in Workers : pc'[v] = "apply" =>
              v # w /\ pc[v] = "apply" /\ batch'[v] = batch[v] /\ snapshot'[v] = snapshot[v]
        BY <1>t, <2>1, ForgetType DEF TypeOK
    <2>5. \A e \in batch[w] : rows'[e].attempt_count = snapshot[w][e].attempt_count + 1
        <3> SUFFICES ASSUME NEW e \in batch[w]
                     PROVE  rows'[e].attempt_count = snapshot[w][e].attempt_count + 1
            OBVIOUS
        <3>1. e \in Deliveries
            BY <1>b
        <3>2. rows'[e] = Updated(w, e)
            BY <1>8, <3>1 DEF Commit
        <3> QED
            BY <1>q, <3>1, <3>2 DEF Updated, Written, Column, Assigned, AfterSuccess, AfterFailure
    <2>6. \A e \in Deliveries \ batch[w] : rows'[e] = rows[e]
        BY <1>8 DEF Commit
    <2>7. AttemptsBackedByPosts'
        <3> SUFFICES ASSUME NEW e \in Deliveries
                     PROVE  rows'[e].attempt_count + UnrecordedCount(e)' <= posts'[e]
            BY DEF AttemptsBackedByPosts
        <3>1. CASE e \in batch[w]
            BY <1>c, <1>p, <1>q, <2>1, <2>2, <2>3, <2>5, <3>1 DEF BackedInv
        <3>2. CASE e \notin batch[w]
            BY <1>c, <1>p, <2>1, <2>2, <2>6, <3>2 DEF BackedInv, AttemptsBackedByPosts
        <3> QED
            BY <3>1, <3>2
    <2>8. \A v \in Workers : pc'[v] = "apply" =>
              \A e \in batch'[v] :
                  snapshot'[v][e].attempt_count + UnrecordedCount(e)' <= posts'[e]
        BY <1>c, <1>p, <1>q, <1>b, <2>1, <2>2, <2>4 DEF BackedInv
    <2> QED
        BY <1>t, <2>7, <2>8 DEF BackedInv
<1>9. ASSUME NEW w \in Workers, Rollback(w) PROVE BackedInv'
    BY <1>9, <1>f DEF Rollback
<1>10. ASSUME NEW w \in Workers, CycleFails(w) PROVE BackedInv'
    BY <1>10, <1>f DEF CycleFails
<1>11. CASE Tick
    <2>1. \A d \in Deliveries : UnrecordedCount(d)' = UnrecordedCount(d)
        BY <1>11 DEF Tick, UnrecordedCount, Unrecorded
    <2> QED
        BY <1>11, <1>t, <1>b, <2>1 DEF Tick, BackedInv, AttemptsBackedByPosts
<1>12. CASE UNCHANGED vars
    <2>1. \A d \in Deliveries : UnrecordedCount(d)' = UnrecordedCount(d)
        BY <1>12 DEF vars, UnrecordedCount, Unrecorded
    <2> QED
        BY <1>12, <1>t, <1>b, <2>1 DEF vars, BackedInv, AttemptsBackedByPosts
<1> QED
    BY <1>1, <1>2, <1>3, <1>4, <1>5, <1>6, <1>7, <1>8, <1>9, <1>10, <1>11, <1>12 DEF Next, WorkerStep

\* At first there are neither attempts nor posts.
LEMMA BackedInit ==
    ASSUME IsFiniteSet(Workers), Init
    PROVE  BackedInv
<1>1. TypeOK
    BY TypeInit
<1>2. \A d \in Deliveries : UnrecordedBy(d) = {}
    BY DEF Init, UnrecordedBy, Unrecorded
<1>3. \A d \in Deliveries : UnrecordedCount(d) = 0
    BY <1>2, CountType, FS_EmptySet
<1> QED
    BY <1>1, <1>3 DEF Init, BackedInv, AttemptsBackedByPosts, NoRow

\* However many workers run, no row records an attempt that was not made
\* (jobs.py:261): a lost update can only lose a count.
THEOREM AttemptsBacked ==
    ASSUME IsFiniteSet(Workers)
    PROVE  Spec => []AttemptsBackedByPosts
<1>1. Init => BackedInv
    BY BackedInit
<1>2. BackedInv /\ [Next]_vars => BackedInv'
    BY BackedStep
<1>3. BackedInv => AttemptsBackedByPosts
    BY DEF BackedInv
<1> QED
    BY <1>1, <1>2, <1>3, PTL DEF Spec

-----------------------------------------------------------------------------
(* One worker, as README.md:58 and :153 state.                              *)
(*                                                                          *)
(* The inductive invariant says that what the worker holds is fresh: the    *)
(* rows of its batch are still open, due and at the count it copied, and    *)
(* the rows it read back are the rows of the table. Nothing in the code     *)
(* locks those rows between the two sessions; it is only the absence of a   *)
(* second writer that keeps them fresh, and everything below rests on it.   *)

OneWorker == \A v, w \in Workers : v = w

\* The rows read back are the rows of the table until the commit.
SnapshotIsFresh ==
    \A w \in Workers : pc[w] = "apply" =>
        \A d \in batch[w] : snapshot[w][d] = rows[d]

\* A row that does not exist yet has no attempts.
AbsentIsNew == \A d \in Deliveries : rows[d].status = "ABSENT" => rows[d].attempt_count = 0

FreshInv ==
    /\ TypeOK
    /\ RowsChecked
    /\ InFlightIsFresh
    /\ SnapshotIsFresh
    /\ RetryLimit
    /\ AbsentIsNew

\* An answer is a three-digit status.
LEMMA AnswersAreStatuses == \A res \in Answers : res \in 100..999
BY ConstantsAssumption

\* At first the worker holds nothing.
LEMMA FreshInit == Init => FreshInv
<1> SUFFICES ASSUME Init PROVE FreshInv
    OBVIOUS
<1>1. TypeOK /\ RowsChecked
    BY AcceptedInit DEF AcceptedInv
<1>2. RetryLimit
    BY ConstantsAssumption DEF Init, RetryLimit, NoRow
<1>3. InFlightIsFresh /\ SnapshotIsFresh /\ AbsentIsNew
    BY DEF Init, InFlightIsFresh, SnapshotIsFresh, AbsentIsNew, NoRow
<1> QED
    BY <1>1, <1>2, <1>3 DEF FreshInv

\* The only worker has dropped its batch: there is nothing left to be stale.
LEMMA ForgetFresh ==
    ASSUME OneWorker, TypeOK, NEW w \in Workers, Forget(w)
    PROVE  InFlightIsFresh' /\ SnapshotIsFresh'
BY ForgetType DEF OneWorker, InFlightIsFresh, SnapshotIsFresh

\* A step that leaves the table alone leaves the limit alone.
LEMMA RowsFresh ==
    ASSUME RetryLimit, AbsentIsNew, rows' = rows
    PROVE  RetryLimit' /\ AbsentIsNew'
BY DEF RetryLimit, AbsentIsNew

\* What a commit writes, once what it read is known to be fresh.
LEMMA CommitWrites ==
    ASSUME FreshInv, NEW w \in Workers, pc[w] = "apply", NEW d \in batch[w]
    PROVE  /\ d \in Deliveries
           /\ outcome[w][d] \in Outcome
           /\ rows[d] \in Row
           /\ rows[d].status \in {"PENDING", "RETRYING"}
           /\ rows[d].attempt_count < MaxRetries
           /\ Updated(w, d) = Assigned(rows[d], outcome[w][d], now)
<1>1. d \in Deliveries /\ outcome[w][d] \in Outcome /\ rows[d] \in Row /\ now \in Nat
    BY DEF FreshInv, TypeOK, LocalsOK
<1>2. snapshot[w][d] = rows[d] /\ rows[d].status \in {"PENDING", "RETRYING"}
    BY DEF FreshInv, SnapshotIsFresh, InFlightIsFresh
<1>3. rows[d].attempt_count < MaxRetries
    BY <1>1, <1>2, ConstantsAssumption
    DEF FreshInv, RowsChecked, RowChecks, AttemptCountMatchesStatus, RetryLimit
<1>4. Updated(w, d) = Assigned(rows[d], outcome[w][d], now)
    BY <1>1, <1>2, WrittenFresh DEF Updated, ResultFor
<1> QED
    BY <1>1, <1>2, <1>3, <1>4

\* The only worker's own steps, and those of the receiver and the clock, keep what
\* it holds fresh.
LEMMA FreshStep ==
    ASSUME OneWorker, FreshInv, [Next]_vars
    PROVE  FreshInv'
<1> USE DEF dbVars, workerVars, receiverVars
<1>t. TypeOK /\ TypeOK'
    BY TypeStep DEF FreshInv
<1>k. ASSUME rows' = rows PROVE RowsChecked' /\ RetryLimit' /\ AbsentIsNew'
    BY <1>k, RowsFresh DEF FreshInv, RowsChecked, RowChecks, ResponseStatusHttpBounds,
       AttemptCountMatchesStatus, SentAtMatchesStatus, DeliveredHasResult, UndeliveredResult
<1>1. ASSUME NEW w \in Workers, StartCycle(w) PROVE FreshInv'
    <2>1. \A v \in Workers : batch'[v] = {}
        BY <1>1, <1>t DEF StartCycle, OneWorker, TypeOK, LocalsOK
    <2>2. \A d \in Deliveries :
              rows'[d] = rows[d] \/ (rows[d].status = "ABSENT" /\ rows'[d] = PendingRow)
        BY <1>1 DEF StartCycle
    <2>3. RowsChecked'
        <3> SUFFICES ASSUME NEW d \in Deliveries, rows'[d].status # "ABSENT"
                     PROVE  RowChecks(rows'[d])
            BY DEF RowsChecked, RowChecks, ResponseStatusHttpBounds,
                   AttemptCountMatchesStatus, SentAtMatchesStatus, DeliveredHasResult,
                   UndeliveredResult
        <3>1. RowChecks(PendingRow)
            BY DEF PendingRow, RowChecks, ResponseStatusHttpBounds,
                   AttemptCountMatchesStatus, SentAtMatchesStatus, DeliveredHasResult,
                   UndeliveredResult
        <3> QED
            BY <2>2, <3>1 DEF FreshInv, RowsChecked
    <2>4. RetryLimit'
        BY <2>2, ConstantsAssumption DEF FreshInv, RetryLimit, PendingRow
    <2>5. AbsentIsNew'
        BY <2>2 DEF FreshInv, AbsentIsNew, PendingRow
    <2> QED
        BY <1>t, <2>1, <2>3, <2>4, <2>5 DEF FreshInv, InFlightIsFresh, SnapshotIsFresh
<1>2. ASSUME NEW w \in Workers, LoadBatch(w) PROVE FreshInv'
    <2>1. batch'[w] = NextBatch /\ pc'[w] = "post" /\ rows' = rows /\ now' = now
        BY <1>2, <1>t DEF LoadBatch, TypeOK
    <2>2. \A d \in NextBatch : copied'[w][d] = rows[d].attempt_count
        BY <1>2, <1>t DEF LoadBatch, TypeOK, NextBatch, Due
    <2>3. \A d \in NextBatch : /\ rows[d].status \in {"PENDING", "RETRYING"}
                               /\ rows[d].next_attempt_at <= now
        BY DEF NextBatch, Due
    <2>4. InFlightIsFresh' /\ SnapshotIsFresh'
        BY <2>1, <2>2, <2>3 DEF OneWorker, InFlightIsFresh, SnapshotIsFresh
    <2> QED
        BY <1>t, <1>k, <2>1, <2>4 DEF FreshInv
<1>3. ASSUME NEW w \in Workers, FinishCycle(w) PROVE FreshInv'
    <2>1. \A v \in Workers : batch'[v] = {}
        BY <1>3, <1>t DEF FinishCycle, OneWorker, TypeOK, LocalsOK
    <2> QED
        BY <1>3, <1>t, <1>k, <2>1 DEF FinishCycle, FreshInv, InFlightIsFresh, SnapshotIsFresh
<1>4. ASSUME NEW w \in Workers, NEW d \in Deliveries, Post(w, d) PROVE FreshInv'
    BY <1>4, <1>t, <1>k DEF Post, FreshInv, InFlightIsFresh, SnapshotIsFresh
<1>5. ASSUME NEW w \in Workers, GatherRaises(w) PROVE FreshInv'
    BY <1>5, <1>t, <1>k, ForgetFresh DEF GatherRaises, FreshInv
<1>6. CASE OrphanArrives
    BY <1>6, <1>t, <1>k DEF OrphanArrives, FreshInv, InFlightIsFresh, SnapshotIsFresh
<1>7. ASSUME NEW w \in Workers, ReadBack(w) PROVE FreshInv'
    <2>1. batch' = batch /\ rows' = rows /\ now' = now /\ copied' = copied
        BY <1>7 DEF ReadBack
    <2>2. \A d \in batch[w] : snapshot'[w][d] = rows[d]
        BY <1>7, <1>t DEF ReadBack, TypeOK
    <2>3. InFlightIsFresh' /\ SnapshotIsFresh'
        BY <2>1, <2>2 DEF OneWorker, FreshInv, InFlightIsFresh, SnapshotIsFresh
    <2> QED
        BY <1>t, <1>k, <2>1, <2>3 DEF FreshInv
<1>8. ASSUME NEW w \in Workers, Commit(w) PROVE FreshInv'
    <2>1. \A d \in batch[w] : RowChecks(Updated(w, d))
        BY <1>8 DEF Commit, Storable
    <2>2. \A d \in Deliveries : rows'[d] = IF d \in batch[w] THEN Updated(w, d) ELSE rows[d]
        BY <1>8 DEF Commit
    <2>3. RowsChecked'
        <3> SUFFICES ASSUME NEW d \in Deliveries, rows'[d].status # "ABSENT"
                     PROVE  RowChecks(rows'[d])
            BY DEF RowsChecked, RowChecks, ResponseStatusHttpBounds,
                   AttemptCountMatchesStatus, SentAtMatchesStatus, DeliveredHasResult,
                   UndeliveredResult
        <3> QED
            BY <2>1, <2>2 DEF FreshInv, RowsChecked
    <2>4. ASSUME NEW d \in batch[w]
          PROVE  /\ Updated(w, d).attempt_count <= MaxRetries
                 /\ Updated(w, d).status = "RETRYING" => Updated(w, d).attempt_count < MaxRetries
                 /\ Updated(w, d).status = "FAILED" => Updated(w, d).attempt_count = MaxRetries
                 /\ Updated(w, d).status # "ABSENT"
        <3>1. /\ rows[d] \in Row
              /\ rows[d].attempt_count < MaxRetries
              /\ Updated(w, d) = Assigned(rows[d], outcome[w][d], now)
            BY <1>8, CommitWrites DEF Commit
        <3> QED
            BY <3>1, ConstantsAssumption
            DEF Assigned, AfterSuccess, AfterFailure, Exhausted, Row
    <2>5. RetryLimit' /\ AbsentIsNew'
        BY <2>2, <2>4 DEF FreshInv, RetryLimit, AbsentIsNew
    <2>6. InFlightIsFresh' /\ SnapshotIsFresh'
        BY <1>8, <1>t, ForgetFresh DEF Commit
    <2> QED
        BY <1>t, <2>3, <2>5, <2>6 DEF FreshInv
<1>9. ASSUME NEW w \in Workers, Rollback(w) PROVE FreshInv'
    BY <1>9, <1>t, <1>k, ForgetFresh DEF Rollback, FreshInv
<1>10. ASSUME NEW w \in Workers, CycleFails(w) PROVE FreshInv'
    BY <1>10, <1>t, <1>k, ForgetFresh DEF CycleFails, FreshInv
<1>11. CASE Tick
    <2>1. now <= now' /\ now \in Nat /\ now' \in Nat
        BY <1>11, <1>t DEF Tick, TypeOK
    <2>2. \A w \in Workers : \A d \in batch[w] : rows[d].next_attempt_at \in Nat
        BY <1>t DEF TypeOK, Row
    <2>3. InFlightIsFresh'
        BY <1>11, <2>1, <2>2 DEF Tick, FreshInv, InFlightIsFresh
    <2> QED
        BY <1>11, <1>t, <1>k, <2>3 DEF Tick, FreshInv, SnapshotIsFresh
<1>12. CASE UNCHANGED vars
    BY <1>12, <1>t, <1>k DEF vars, FreshInv, InFlightIsFresh, SnapshotIsFresh
<1> QED
    BY <1>1, <1>2, <1>3, <1>4, <1>5, <1>6, <1>7, <1>8, <1>9, <1>10, <1>11, <1>12 DEF Next, WorkerStep

\* With one worker, what it holds is always fresh.
LEMMA Fresh ==
    ASSUME OneWorker
    PROVE  Spec => []FreshInv
<1>1. FreshInv /\ [Next]_vars => FreshInv'
    BY FreshStep
<1> QED
    BY <1>1, FreshInit, PTL DEF Spec

\* With one worker, what it copied when it loaded a batch stays true until it
\* has recorded the outcomes (jobs.py:174-218 closes its session first).
THEOREM InFlightFresh ==
    ASSUME OneWorker
    PROVE  Spec => []InFlightIsFresh
<1>1. FreshInv => InFlightIsFresh
    BY DEF FreshInv
<1> QED
    BY <1>1, Fresh, PTL

\* With one worker, a row gives up exactly at the limit (jobs.py:273-280).
THEOREM RetryLimitHolds ==
    ASSUME OneWorker
    PROVE  Spec => []RetryLimit
<1>1. FreshInv => RetryLimit
    BY DEF FreshInv
<1> QED
    BY <1>1, Fresh, PTL

\* A fresh row and an answer that the column takes make a row that the CHECKs
\* accept.
LEMMA FreshStorable == FreshInv => OutcomesAreStorable
<1> SUFFICES ASSUME FreshInv, NEW w \in Workers, pc[w] = "apply",
                    \A d \in batch[w] : outcome[w][d] <= 599,
                    NEW d \in batch[w]
             PROVE  RowChecks(Updated(w, d))
    BY DEF OutcomesAreStorable, Storable
<1>1. /\ outcome[w][d] \in Outcome
      /\ outcome[w][d] <= 599
      /\ rows[d] \in Row
      /\ rows[d].status \in {"PENDING", "RETRYING"}
      /\ Updated(w, d) = Assigned(rows[d], outcome[w][d], now)
    BY CommitWrites
<1>2. ~rows[d].sent_at
    BY <1>1 DEF FreshInv, RowsChecked, RowChecks, SentAtMatchesStatus, TypeOK, Row
<1>3. StatusOf(outcome[w][d]) = Null \/ StatusOf(outcome[w][d]) \in 100..599
    <2>1. CASE outcome[w][d] = NoAnswer
        BY <2>1 DEF StatusOf
    <2>2. CASE outcome[w][d] \in Answers
        <3>1. StatusOf(outcome[w][d]) = outcome[w][d]
            BY <2>2, AnswersAreStatuses DEF StatusOf, NoAnswer
        <3>2. outcome[w][d] \in 100..999 /\ outcome[w][d] <= 599
            BY <2>2, <1>1, AnswersAreStatuses
        <3>3. outcome[w][d] \in 100..599
            BY <3>2
        <3> QED
            BY <3>1, <3>3
    <2> QED
        BY <2>1, <2>2, <1>1 DEF Outcome
<1>4. IsSuccess(outcome[w][d]) => StatusOf(outcome[w][d]) \in 200..299
    BY DEF IsSuccess, StatusOf, NoAnswer
<1>5. outcome[w][d] # Null
    BY <1>1, ConstantsAssumption DEF Outcome, NoAnswer, Null
<1>6. rows[d].attempt_count + 1 > 0 /\ rows[d].attempt_count + 1 # 0
    BY <1>1 DEF Row
<1>7. CASE IsSuccess(outcome[w][d])
    BY <1>1, <1>3, <1>4, <1>6, <1>7 DEF Assigned, AfterSuccess, RowChecks,
       ResponseStatusHttpBounds, AttemptCountMatchesStatus, SentAtMatchesStatus,
       DeliveredHasResult, UndeliveredResult
<1>8. CASE ~IsSuccess(outcome[w][d])
    BY <1>1, <1>2, <1>3, <1>5, <1>6, <1>8 DEF Assigned, AfterFailure, RowChecks,
       ResponseStatusHttpBounds, AttemptCountMatchesStatus, SentAtMatchesStatus,
       DeliveredHasResult, UndeliveredResult
<1> QED
    BY <1>7, <1>8

\* With one worker, no batch of storable answers is refused by the table's
\* CHECKs (notifications/models.py:23-54 against jobs.py:261-280).
THEOREM OutcomesStorable ==
    ASSUME OneWorker
    PROVE  Spec => []OutcomesAreStorable
BY Fresh, FreshStorable, PTL

\* With one worker, a DELIVERED or FAILED row is never written again (jobs.py:183).
THEOREM TerminalStays ==
    ASSUME OneWorker
    PROVE  Spec => TerminalIsFinal
<1>1. FreshInv /\ [Next]_vars =>
          [\A d \in Deliveries : Terminal(d) => rows'[d] = rows[d]]_vars
    <2> SUFFICES ASSUME FreshInv, Next, NEW d \in Deliveries, Terminal(d)
                 PROVE  rows'[d] = rows[d]
        BY DEF vars
    <2> USE DEF dbVars
    <2>1. ASSUME NEW w \in Workers, StartCycle(w) PROVE rows'[d] = rows[d]
        BY <2>1 DEF StartCycle, Terminal
    <2>2. ASSUME NEW w \in Workers, Commit(w) PROVE rows'[d] = rows[d]
        BY <2>2 DEF Commit, Terminal, FreshInv, InFlightIsFresh
    <2>3. CASE rows' = rows
        BY <2>3
    <2> QED
        BY <2>1, <2>2, <2>3 DEF Next, WorkerStep, LoadBatch, FinishCycle, Post, GatherRaises, OrphanArrives,
           ReadBack, Rollback, CycleFails, Tick
<1> QED
    BY <1>1, Fresh, PTL DEF Spec, TerminalIsFinal

=============================================================================
