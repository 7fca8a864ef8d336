------------------------ MODULE DeliveryServiceProofs ------------------------
(***************************************************************************)
(* Theorems about what one delivery worker promises: the accounting of its *)
(* posts, and that it implements NotificationService.tla.                  *)
(*                                                                         *)
(* Both rest on the freshness proved in DeliveryProofs.tla: the count      *)
(* a payload carries and the row an outcome is applied to are those of the *)
(* table.  The accounting needs two more facts: no gather waits for a      *)
(* batch with a row that cannot be posted, and a batch that the CHECKs     *)
(* will refuse has already used up the fault that pays for its posts.      *)
(***************************************************************************)
EXTENDS DeliveryService, DeliveryProofs

\* With one worker at most, the workers can be counted.
LEMMA FewWorkers == OneWorker => IsFiniteSet(Workers)
<1> SUFFICES ASSUME OneWorker, NEW w \in Workers PROVE IsFiniteSet(Workers)
    BY FS_EmptySet
<1>1. Workers = {w}
    BY DEF OneWorker
<1> QED
    BY <1>1, FS_Singleton

-----------------------------------------------------------------------------
(* Posts that no row counts.                                               *)

\* While a batch holds a row that cannot be posted, none of its posts ends.
PoisonUnposted ==
    \A w \in Workers : batch[w] \cap Poison # {} =>
        \A d \in Deliveries : outcome[w][d] = Pending

\* One, while an answer is held that the table will refuse.
Unstorable == IF \E w \in Workers : \E d \in batch[w] : outcome[w][d] > 599 THEN 1 ELSE 0

\* The fault of such an answer is not spent on anything else.
PostsAccounted ==
    \A d \in Deliveries :
        posts[d] + Unstorable <= rows[d].attempt_count + UnrecordedCount(d) + faults

AccountInv == FreshInv /\ PoisonUnposted /\ PostsAccounted

\* The quantities are numbers.
LEMMA AccountTypes ==
    ASSUME OneWorker, TypeOK
    PROVE  /\ Unstorable \in 0..1 /\ faults \in Nat
           /\ \A d \in Deliveries :
                  /\ posts[d] \in Nat
                  /\ rows[d].attempt_count \in Nat
                  /\ UnrecordedCount(d) \in Nat
<1>1. \A d \in Deliveries : posts[d] \in Nat /\ rows[d] \in Row
    BY DEF TypeOK
<1>2. \A d \in Deliveries : UnrecordedCount(d) \in Nat
    BY FewWorkers, CountType
<1> QED
    BY <1>1, <1>2 DEF TypeOK, Row, Unstorable

\* Nothing has been posted at first.
LEMMA AccountInit == OneWorker /\ Init => AccountInv
<1> SUFFICES ASSUME OneWorker, Init PROVE AccountInv
    OBVIOUS
<1>1. FreshInv
    BY FreshInit
<1>2. PoisonUnposted /\ Unstorable = 0
    BY DEF Init, PoisonUnposted, Unstorable
<1>3. PostsAccounted
    BY <1>1, <1>2, AccountTypes DEF Init, PostsAccounted, NoRow, FreshInv
<1> QED
    BY <1>1, <1>2, <1>3 DEF AccountInv

\* A step that ends no post and records none keeps the accounts.
LEMMA SameAccount ==
    ASSUME AccountInv, posts' = posts, outcome' = outcome, batch' = batch, faults' = faults,
           \A d \in Deliveries : rows'[d].attempt_count = rows[d].attempt_count
    PROVE  PoisonUnposted' /\ PostsAccounted'
<1>1. \A d \in Deliveries : UnrecordedCount(d)' = UnrecordedCount(d)
    BY DEF UnrecordedCount, Unrecorded
<1>2. Unstorable' = Unstorable
    BY DEF Unstorable
<1> QED
    BY <1>1, <1>2 DEF AccountInv, PoisonUnposted, PostsAccounted

\* A worker without a batch holds nothing that the table will refuse.
LEMMA ForgetAccount ==
    ASSUME OneWorker, TypeOK, NEW w \in Workers, Forget(w)
    PROVE  /\ PoisonUnposted' /\ Unstorable' = 0
           /\ \A d \in Deliveries :
                  UnrecordedCount(d)' = UnrecordedCount(d) - (IF Unrecorded(w, d) THEN 1 ELSE 0)
<1>1. \A v \in Workers : batch'[v] = {}
    BY ForgetType DEF OneWorker
<1>2. PoisonUnposted' /\ Unstorable' = 0
    BY <1>1 DEF PoisonUnposted, Unstorable
<1> QED
    BY <1>2, FewWorkers, ForgetCount

\* A commit counts one attempt for each row of the batch, and no other step
\* changes a count.
LEMMA CommitCounts ==
    ASSUME FreshInv, NEW w \in Workers, Commit(w)
    PROVE  \A d \in Deliveries :
               rows'[d].attempt_count = rows[d].attempt_count + (IF d \in batch[w] THEN 1 ELSE 0)
<1>1. \A d \in Deliveries : rows'[d] = IF d \in batch[w] THEN Updated(w, d) ELSE rows[d]
    BY DEF Commit
<1>2. \A d \in Deliveries : rows[d].attempt_count \in Nat
    BY DEF FreshInv, TypeOK, Row
<1>3. ASSUME NEW d \in batch[w] PROVE Updated(w, d).attempt_count = rows[d].attempt_count + 1
    BY CommitWrites DEF Commit, Assigned, AfterSuccess, AfterFailure
<1> QED
    BY <1>1, <1>2, <1>3

\* Only a commit counts an attempt.
LEMMA OtherCounts ==
    ASSUME FreshInv, [Next]_vars, \A w \in Workers : ~Commit(w)
    PROVE  \A d \in Deliveries : rows'[d].attempt_count = rows[d].attempt_count
<1> USE DEF dbVars
<1>1. ASSUME NEW w \in Workers, StartCycle(w)
      PROVE  \A d \in Deliveries : rows'[d].attempt_count = rows[d].attempt_count
    BY <1>1 DEF StartCycle, FreshInv, AbsentIsNew, PendingRow
<1> QED
    BY <1>1 DEF Next, WorkerStep, LoadBatch, FinishCycle, Post, GatherRaises, OrphanArrives, ReadBack,
       Rollback, CycleFails, Tick, vars

\* A batch is loaded with no answers in memory.
LEMMA LoadAccount ==
    ASSUME OneWorker, AccountInv, NEW w \in Workers, LoadBatch(w)
    PROVE  PoisonUnposted' /\ PostsAccounted'
<1>1. /\ pc[w] = "load" /\ batch' = [batch EXCEPT ![w] = NextBatch]
      /\ outcome' = outcome /\ posts' = posts /\ faults' = faults /\ rows' = rows
    BY DEF LoadBatch, receiverVars, dbVars
<1>2. \A d \in Deliveries : outcome'[w][d] = Pending
    BY <1>1 DEF AccountInv, FreshInv, TypeOK, LocalsOK
<1>3. PoisonUnposted'
    BY <1>2 DEF OneWorker, PoisonUnposted
<1>4. batch'[w] \subseteq Deliveries
    BY <1>1 DEF AccountInv, FreshInv, TypeOK, NextBatch, Due
<1>5. Unstorable' = 0
    BY <1>2, <1>4 DEF OneWorker, Unstorable, Pending
<1>6. \A d \in Deliveries : UnrecordedCount(d)' = UnrecordedCount(d)
    BY <1>1, FewWorkers, SameCount DEF AccountInv, FreshInv, OneWorker
<1>7. PostsAccounted'
    BY <1>1, <1>5, <1>6, AccountTypes DEF AccountInv, FreshInv, PostsAccounted
<1> QED
    BY <1>3, <1>7

\* A post that ends is unrecorded; an answer beyond 599 uses up a fault.
LEMMA PostAccount ==
    ASSUME OneWorker, AccountInv, NEW w \in Workers, NEW d \in Deliveries, Post(w, d)
    PROVE  PoisonUnposted' /\ PostsAccounted'
<1>1. PICK res \in Outcome :
          /\ outcome' = [outcome EXCEPT ![w][d] = res]
          /\ IF res > 599 THEN faults' = faults + 1 ELSE faults' = faults
    BY DEF Post
<1>2. /\ batch[w] \cap Poison = {} /\ batch' = batch /\ rows' = rows
      /\ posts' = [posts EXCEPT ![d] = @ + 1]
    BY DEF Post, dbVars
<1>3. PoisonUnposted'
    BY <1>2 DEF OneWorker, PoisonUnposted
<1>4. \A v \in Workers : \A e \in Deliveries :
          outcome'[v][e] = IF v = w /\ e = d THEN res ELSE outcome[v][e]
    BY <1>1 DEF AccountInv, FreshInv, TypeOK
<1>5. \A v \in Workers : batch[v] \subseteq Deliveries
    BY DEF AccountInv, FreshInv, TypeOK
<1>6. IF res > 599 THEN Unstorable' <= Unstorable + 1 ELSE Unstorable' <= Unstorable
    BY <1>2, <1>4, <1>5 DEF Unstorable
<1>7. \A e \in Deliveries :
          /\ UnrecordedCount(e)' = UnrecordedCount(e) + (IF e = d THEN 1 ELSE 0)
          /\ posts'[e] = posts[e] + (IF e = d THEN 1 ELSE 0)
    <2>1. \A e \in Deliveries :
              UnrecordedCount(e)' = UnrecordedCount(e) + (IF e = d THEN 1 ELSE 0)
        BY FewWorkers, PostCount DEF AccountInv, FreshInv
    <2>2. posts \in [Deliveries -> Nat]
        BY DEF AccountInv, FreshInv, TypeOK
    <2> QED
        BY <1>2, <2>1, <2>2
<1>8. TypeOK /\ TypeOK'
    BY TypeStep DEF AccountInv, FreshInv, Next, WorkerStep
<1>9. PostsAccounted'
    <2> SUFFICES ASSUME NEW e \in Deliveries
                 PROVE  posts'[e] + Unstorable' <=
                            rows'[e].attempt_count + UnrecordedCount(e)' + faults'
        BY DEF PostsAccounted
    <2>1. /\ Unstorable \in 0..1 /\ faults \in Nat /\ posts[e] \in Nat
          /\ rows[e].attempt_count \in Nat /\ UnrecordedCount(e) \in Nat /\ Unstorable' \in 0..1
        BY <1>8, AccountTypes DEF Unstorable
    <2>2. posts[e] + Unstorable <= rows[e].attempt_count + UnrecordedCount(e) + faults
        BY DEF AccountInv, PostsAccounted
    <2>3. Unstorable' + faults <= Unstorable + faults'
        BY <1>1, <1>6, <2>1
    <2> HIDE DEF Unstorable
    <2> QED
        BY <1>1, <1>2, <1>7, <2>1, <2>2, <2>3
<1> QED
    BY <1>3, <1>9

\* A batch is refused for an answer whose fault was used up when it arrived.
LEMMA RollbackAccount ==
    ASSUME OneWorker, AccountInv, NEW w \in Workers, Rollback(w)
    PROVE  PoisonUnposted' /\ PostsAccounted'
<1>1. /\ pc[w] = "apply" /\ ~Storable(w) /\ Forget(w)
      /\ rows' = rows /\ posts' = posts /\ faults' = faults
    BY DEF Rollback, dbVars, receiverVars
<1>2. \E d \in batch[w] : outcome[w][d] > 599
    <2>1. \A d \in batch[w] : outcome[w][d] \in Int
        <3>1. \A res \in Outcome : res \in Int
            BY AnswersAreStatuses DEF Outcome, NoAnswer
        <3> QED
            BY <1>1, <3>1, CommitWrites DEF AccountInv
    <2> QED
        BY <1>1, <2>1, FreshStorable DEF AccountInv, OutcomesAreStorable
<1>3. Unstorable = 1
    BY <1>2 DEF Unstorable
<1>4. /\ PoisonUnposted' /\ Unstorable' = 0
      /\ \A d \in Deliveries :
             UnrecordedCount(d)' = UnrecordedCount(d) - (IF Unrecorded(w, d) THEN 1 ELSE 0)
    BY <1>1, ForgetAccount DEF AccountInv, FreshInv
<1>5. PostsAccounted'
    BY <1>1, <1>3, <1>4, AccountTypes DEF AccountInv, FreshInv, PostsAccounted
<1> QED
    BY <1>4, <1>5

\* A cycle that fails pays with the fault.
LEMMA FailAccount ==
    ASSUME OneWorker, AccountInv, NEW w \in Workers, CycleFails(w)
    PROVE  PoisonUnposted' /\ PostsAccounted'
<1>1. Forget(w) /\ rows' = rows /\ posts' = posts /\ faults' = faults + 1
    BY DEF CycleFails, dbVars, receiverVars
<1>2. /\ PoisonUnposted' /\ Unstorable' = 0
      /\ \A d \in Deliveries :
             UnrecordedCount(d)' = UnrecordedCount(d) - (IF Unrecorded(w, d) THEN 1 ELSE 0)
    BY <1>1, ForgetAccount DEF AccountInv, FreshInv
<1>3. PostsAccounted'
    BY <1>1, <1>2, AccountTypes DEF AccountInv, FreshInv, PostsAccounted
<1> QED
    BY <1>2, <1>3

\* A gather that raises loses no result: none has arrived.
LEMMA RaiseAccount ==
    ASSUME OneWorker, AccountInv, NEW w \in Workers, GatherRaises(w)
    PROVE  PoisonUnposted' /\ PostsAccounted'
<1>1. /\ Forget(w) /\ rows' = rows /\ posts' = posts /\ faults' = faults
      /\ batch[w] \cap Poison # {}
    BY DEF GatherRaises, dbVars
<1>2. \A d \in Deliveries : ~Unrecorded(w, d)
    BY <1>1 DEF AccountInv, PoisonUnposted, Unrecorded
<1>3. /\ PoisonUnposted' /\ Unstorable' = 0
      /\ \A d \in Deliveries :
             UnrecordedCount(d)' = UnrecordedCount(d) - (IF Unrecorded(w, d) THEN 1 ELSE 0)
    BY <1>1, ForgetAccount DEF AccountInv, FreshInv
<1>4. PostsAccounted'
    BY <1>1, <1>2, <1>3, AccountTypes DEF AccountInv, FreshInv, PostsAccounted
<1> QED
    BY <1>3, <1>4

\* A commit turns each result of the batch into a counted attempt.
LEMMA CommitAccount ==
    ASSUME OneWorker, AccountInv, NEW w \in Workers, Commit(w)
    PROVE  PoisonUnposted' /\ PostsAccounted'
<1>1. pc[w] = "apply" /\ Forget(w) /\ posts' = posts /\ faults' = faults
    BY DEF Commit, receiverVars
<1>2. \A d \in Deliveries : Unrecorded(w, d) <=> d \in batch[w]
    BY <1>1 DEF AccountInv, FreshInv, TypeOK, LocalsOK, Unrecorded
<1>3. \A d \in Deliveries :
          rows'[d].attempt_count = rows[d].attempt_count + (IF d \in batch[w] THEN 1 ELSE 0)
    BY CommitCounts DEF AccountInv
<1>4. /\ PoisonUnposted' /\ Unstorable' = 0
      /\ \A d \in Deliveries :
             UnrecordedCount(d)' = UnrecordedCount(d) - (IF Unrecorded(w, d) THEN 1 ELSE 0)
    BY <1>1, ForgetAccount DEF AccountInv, FreshInv
<1>5. PostsAccounted'
    BY <1>1, <1>2, <1>3, <1>4, AccountTypes DEF AccountInv, FreshInv, PostsAccounted
<1> QED
    BY <1>4, <1>5

\* The accounts are kept by every step.
LEMMA AccountStep ==
    ASSUME OneWorker, AccountInv, [Next]_vars
    PROVE  AccountInv'
<1> USE DEF dbVars, workerVars, receiverVars
<1>1. FreshInv'
    BY FreshStep DEF AccountInv
<1>2. CASE \E w \in Workers : Commit(w)
    BY <1>1, <1>2, CommitAccount DEF AccountInv
<1>3. CASE \A w \in Workers : ~Commit(w)
    <2>1. \A d \in Deliveries : rows'[d].attempt_count = rows[d].attempt_count
        BY <1>3, OtherCounts DEF AccountInv
    <2>2. ASSUME NEW w \in Workers, LoadBatch(w) PROVE AccountInv'
        BY <1>1, <2>2, LoadAccount DEF AccountInv
    <2>3. ASSUME NEW w \in Workers, NEW d \in Deliveries, Post(w, d) PROVE AccountInv'
        BY <1>1, <2>3, PostAccount DEF AccountInv
    <2>4. ASSUME NEW w \in Workers, GatherRaises(w) PROVE AccountInv'
        BY <1>1, <2>4, RaiseAccount DEF AccountInv
    <2>5. ASSUME NEW w \in Workers, Rollback(w) PROVE AccountInv'
        BY <1>1, <2>5, RollbackAccount DEF AccountInv
    <2>6. ASSUME NEW w \in Workers, CycleFails(w) PROVE AccountInv'
        BY <1>1, <2>6, FailAccount DEF AccountInv
    <2>7. ASSUME posts' = posts, outcome' = outcome, batch' = batch, faults' = faults
          PROVE  AccountInv'
        BY <1>1, <2>1, <2>7, SameAccount DEF AccountInv
    <2>8. ASSUME NEW w \in Workers, StartCycle(w) \/ FinishCycle(w) \/ ReadBack(w)
          PROVE  AccountInv'
        BY <2>7, <2>8 DEF StartCycle, FinishCycle, ReadBack
    <2>9. CASE OrphanArrives \/ Tick \/ UNCHANGED vars
        BY <2>7, <2>9 DEF OrphanArrives, Tick, vars
    <2> QED
        BY <1>3, <2>2, <2>3, <2>4, <2>5, <2>6, <2>8, <2>9 DEF Next, WorkerStep
<1> QED
    BY <1>2, <1>3

\* With one worker, every post that a gather waited for is counted, still
\* unrecorded, or paid for by a fault.
LEMMA WaitedPostsAreCounted ==
    ASSUME OneWorker
    PROVE  Spec => []UncountedPostsAreFaults
<1>1. AccountInv => UncountedPostsAreFaults
    BY AccountTypes DEF AccountInv, FreshInv, PostsAccounted, UncountedPostsAreFaults
<1>2. AccountInv /\ [Next]_vars => AccountInv'
    BY AccountStep
<1> QED
    BY <1>1, <1>2, AccountInit, PTL DEF Spec

-----------------------------------------------------------------------------
(* The numbers of the attempts.                                            *)

\* An unrecorded post went out under the next number, and a post that is still
\* on the wire carries a number that has come up.
NumbersOnTheWire ==
    /\ \A w \in Workers : \A d \in Deliveries :
           Unrecorded(w, d) => rows[d].attempt_count + 1 \in seen[d]
    /\ \A o \in orphans : o[2] \in 1..rows[o[1]].attempt_count + 1

NumberedInv == FreshInv /\ AttemptsAreNumbered /\ NumbersOnTheWire

\* At first nothing has been posted.
LEMMA NumberedInit == Init => NumberedInv
<1> SUFFICES ASSUME Init PROVE NumberedInv
    OBVIOUS
<1>1. FreshInv
    BY FreshInit
<1>2. AttemptsAreNumbered /\ NumbersOnTheWire
    BY DEF Init, AttemptsAreNumbered, NumbersOnTheWire, NoRow, Unrecorded
<1> QED
    BY <1>1, <1>2 DEF NumberedInv

\* The number a payload carries is the next one.
LEMMA NextNumber ==
    ASSUME FreshInv, NEW w \in Workers, NEW d \in batch[w]
    PROVE  /\ d \in Deliveries
           /\ rows[d].attempt_count \in Nat
           /\ PayloadAttempt(w, d) = rows[d].attempt_count + 1
BY DEF FreshInv, TypeOK, Row, InFlightIsFresh, PayloadAttempt

\* A step that posts nothing and counts nothing.
LEMMA SameNumbers ==
    ASSUME NumberedInv, seen' = seen, orphans' = orphans,
           \A w \in Workers : \A d \in Deliveries : Unrecorded(w, d)' => Unrecorded(w, d),
           \A d \in Deliveries : rows'[d].attempt_count = rows[d].attempt_count
    PROVE  AttemptsAreNumbered' /\ NumbersOnTheWire'
<1>1. \A o \in orphans : o[1] \in Deliveries
    BY DEF NumberedInv, FreshInv, TypeOK
<1> QED
    BY <1>1 DEF NumberedInv, AttemptsAreNumbered, NumbersOnTheWire

\* The attempt that a commit counts has been seen under its number.
LEMMA CommitNumbers ==
    ASSUME OneWorker, NumberedInv, NEW w \in Workers, Commit(w)
    PROVE  AttemptsAreNumbered' /\ NumbersOnTheWire'
<1>1. pc[w] = "apply" /\ Forget(w) /\ seen' = seen /\ orphans' = orphans
    BY DEF Commit, receiverVars
<1>2. \A d \in batch[w] : rows[d].attempt_count + 1 \in seen[d]
    BY <1>1 DEF NumberedInv, NumbersOnTheWire, FreshInv, TypeOK, LocalsOK, Unrecorded
<1>3. \A d \in Deliveries :
          /\ rows[d].attempt_count \in Nat
          /\ rows'[d].attempt_count = rows[d].attempt_count + (IF d \in batch[w] THEN 1 ELSE 0)
    BY CommitCounts DEF NumberedInv, FreshInv, TypeOK, Row
<1>4. AttemptsAreNumbered'
    BY <1>1, <1>2, <1>3 DEF NumberedInv, AttemptsAreNumbered
<1>5. \A v \in Workers : \A d \in Deliveries : ~Unrecorded(v, d)'
    BY <1>1, ForgetType DEF OneWorker, Unrecorded, NumberedInv, FreshInv
<1>6. \A o \in orphans : o[1] \in Deliveries
    BY DEF NumberedInv, FreshInv, TypeOK
<1>7. NumbersOnTheWire'
    BY <1>1, <1>3, <1>5, <1>6 DEF NumberedInv, NumbersOnTheWire
<1> QED
    BY <1>4, <1>7

\* Seeing a number that has come up changes nothing about the rest.
LEMMA MoreSeen ==
    ASSUME AttemptsAreNumbered, rows' = rows, NEW d \in Deliveries, NEW n,
           n \in 1..rows[d].attempt_count + 1,
           \A e \in Deliveries : seen'[e] = IF e = d THEN seen[e] \cup {n} ELSE seen[e]
    PROVE  AttemptsAreNumbered'
<1> SUFFICES ASSUME NEW e \in Deliveries
             PROVE  /\ 1..rows[e].attempt_count \subseteq seen'[e]
                    /\ seen'[e] \subseteq 1..(rows[e].attempt_count + 1)
    BY DEF AttemptsAreNumbered
<1>1. /\ 1..rows[e].attempt_count \subseteq seen[e]
      /\ seen[e] \subseteq 1..(rows[e].attempt_count + 1)
    BY DEF AttemptsAreNumbered
<1>2. seen[e] \subseteq seen'[e] /\ \A m \in seen'[e] : m \in seen[e] \/ (e = d /\ m = n)
    OBVIOUS
<1> QED
    BY <1>1, <1>2

\* A post leaves under the next number.
LEMMA PostNumbers ==
    ASSUME NumberedInv, NEW w \in Workers, NEW d \in Deliveries, Post(w, d)
    PROVE  AttemptsAreNumbered' /\ NumbersOnTheWire'
<1>1. /\ d \in batch[w] /\ rows' = rows /\ orphans' = orphans /\ batch' = batch
      /\ seen' = [seen EXCEPT ![d] = @ \cup {PayloadAttempt(w, d)}]
    BY DEF Post, dbVars
<1>2. \A e \in Deliveries :
          seen'[e] = IF e = d THEN seen[e] \cup {rows[d].attempt_count + 1} ELSE seen[e]
    BY <1>1, NextNumber DEF NumberedInv, FreshInv, TypeOK
<1>3. \A v \in Workers : \A e \in Deliveries : Unrecorded(v, e)' => Unrecorded(v, e) \/ e = d
    <2>1. PICK res \in Outcome : outcome' = [outcome EXCEPT ![w][d] = res]
        BY DEF Post
    <2> QED
        BY <1>1, <2>1 DEF Unrecorded, NumberedInv, FreshInv, TypeOK
<1>4. rows[d].attempt_count + 1 \in 1..rows[d].attempt_count + 1
    BY DEF NumberedInv, FreshInv, TypeOK, Row
<1>5. AttemptsAreNumbered'
    BY <1>1, <1>2, <1>4, MoreSeen DEF NumberedInv
<1>6. NumbersOnTheWire'
    <2>1. ASSUME NEW v \in Workers, NEW e \in Deliveries, Unrecorded(v, e)'
          PROVE  rows'[e].attempt_count + 1 \in seen'[e]
        <3>1. Unrecorded(v, e) \/ e = d
            BY <1>3, <2>1
        <3>2. Unrecorded(v, e) => rows[e].attempt_count + 1 \in seen[e]
            BY DEF NumberedInv, NumbersOnTheWire
        <3>3. rows[e].attempt_count + 1 \in seen'[e]
            BY <1>2, <3>1, <3>2
        <3> QED
            BY <1>1, <3>3
    <2> QED
        BY <1>1, <2>1 DEF NumberedInv, NumbersOnTheWire
<1> QED
    BY <1>5, <1>6

\* So do the posts that a gather abandons.
LEMMA RaiseNumbers ==
    ASSUME OneWorker, NumberedInv, NEW w \in Workers, GatherRaises(w)
    PROVE  AttemptsAreNumbered' /\ NumbersOnTheWire'
<1>1. /\ Forget(w) /\ rows' = rows /\ seen' = seen
      /\ orphans' = orphans \cup {<<d, PayloadAttempt(w, d)>> : d \in batch[w] \ Poison}
    BY DEF GatherRaises, dbVars
<1>2. \A v \in Workers : \A d \in Deliveries : ~Unrecorded(v, d)'
    BY <1>1, ForgetType DEF OneWorker, Unrecorded, NumberedInv, FreshInv
<1>3. \A d \in batch[w] : PayloadAttempt(w, d) \in 1..rows[d].attempt_count + 1
    BY NextNumber DEF NumberedInv
<1>4. NumbersOnTheWire'
    BY <1>1, <1>2, <1>3 DEF NumberedInv, NumbersOnTheWire
<1> QED
    BY <1>1, <1>4 DEF NumberedInv, AttemptsAreNumbered

\* They arrive late, under a number that has come up by then.
LEMMA OrphanNumbers ==
    ASSUME NumberedInv, OrphanArrives
    PROVE  AttemptsAreNumbered' /\ NumbersOnTheWire'
<1>1. PICK o \in orphans :
          /\ orphans' = orphans \ {o}
          /\ seen' = [seen EXCEPT ![o[1]] = @ \cup {o[2]}]
    BY DEF OrphanArrives
<1>2. rows' = rows /\ batch' = batch /\ outcome' = outcome
    BY DEF OrphanArrives, dbVars, workerVars
<1>3. \A d \in Deliveries : seen'[d] = IF d = o[1] THEN seen[d] \cup {o[2]} ELSE seen[d]
    BY <1>1 DEF NumberedInv, FreshInv, TypeOK
<1>4. o[1] \in Deliveries /\ o[2] \in 1..rows[o[1]].attempt_count + 1
    BY DEF NumberedInv, NumbersOnTheWire, FreshInv, TypeOK
<1>5. AttemptsAreNumbered'
    BY <1>2, <1>3, <1>4, MoreSeen DEF NumberedInv
<1>6. NumbersOnTheWire'
    BY <1>1, <1>2, <1>3 DEF NumberedInv, NumbersOnTheWire, Unrecorded
<1> QED
    BY <1>5, <1>6

\* Every step keeps the numbers right.
LEMMA NumberedStep ==
    ASSUME OneWorker, NumberedInv, [Next]_vars
    PROVE  NumberedInv'
<1> USE DEF dbVars, workerVars, receiverVars
<1>1. FreshInv'
    BY FreshStep DEF NumberedInv
<1>2. CASE \E w \in Workers : Commit(w)
    BY <1>1, <1>2, CommitNumbers DEF NumberedInv
<1>3. CASE \A w \in Workers : ~Commit(w)
    <2>1. \A d \in Deliveries : rows'[d].attempt_count = rows[d].attempt_count
        BY <1>3, OtherCounts DEF NumberedInv
    <2>2. ASSUME NEW w \in Workers, NEW d \in Deliveries, Post(w, d) PROVE NumberedInv'
        BY <1>1, <2>2, PostNumbers DEF NumberedInv
    <2>3. ASSUME NEW w \in Workers, GatherRaises(w) PROVE NumberedInv'
        BY <1>1, <2>3, RaiseNumbers DEF NumberedInv
    <2>4. CASE OrphanArrives
        BY <1>1, <2>4, OrphanNumbers DEF NumberedInv
    <2>5. ASSUME seen' = seen, orphans' = orphans,
                 \A w \in Workers : \A d \in Deliveries : Unrecorded(w, d)' => Unrecorded(w, d)
          PROVE  NumberedInv'
        BY <1>1, <2>1, <2>5, SameNumbers DEF NumberedInv
    <2>6. ASSUME NEW w \in Workers, StartCycle(w) \/ FinishCycle(w) \/ ReadBack(w)
          PROVE  NumberedInv'
        BY <2>5, <2>6 DEF StartCycle, FinishCycle, ReadBack, Unrecorded
    <2>7. CASE Tick \/ UNCHANGED vars
        BY <2>5, <2>7 DEF Tick, vars, Unrecorded
    <2>8. ASSUME NEW w \in Workers, LoadBatch(w) PROVE NumberedInv'
        <3>1. \A v \in Workers : \A d \in Deliveries : Unrecorded(v, d)' => Unrecorded(v, d)
            BY <2>8 DEF LoadBatch, Unrecorded, NumberedInv, FreshInv, TypeOK, LocalsOK, OneWorker
        <3> QED
            BY <2>5, <2>8, <3>1 DEF LoadBatch
    <2>9. ASSUME NEW w \in Workers, Rollback(w) \/ CycleFails(w) PROVE NumberedInv'
        <3>1. Forget(w) /\ seen' = seen /\ orphans' = orphans
            BY <2>9 DEF Rollback, CycleFails
        <3>2. \A v \in Workers : \A d \in Deliveries : ~Unrecorded(v, d)'
            BY <3>1, ForgetType DEF OneWorker, Unrecorded, NumberedInv, FreshInv
        <3> QED
            BY <2>5, <3>1, <3>2
    <2> QED
        BY <1>3, <2>2, <2>3, <2>4, <2>6, <2>7, <2>8, <2>9 DEF Next, WorkerStep
<1> QED
    BY <1>2, <1>3

\* With one worker, each recorded attempt went out under its own number, and no
\* number was skipped, also when posts are abandoned and arrive late
\* (jobs.py:224 and 261).
THEOREM AttemptsNumbered ==
    ASSUME OneWorker
    PROVE  Spec => []AttemptsAreNumbered
<1>1. NumberedInv => AttemptsAreNumbered
    BY DEF NumberedInv
<1>2. NumberedInv /\ [Next]_vars => NumberedInv'
    BY NumberedStep
<1> QED
    BY <1>1, <1>2, NumberedInit, PTL DEF Spec

-----------------------------------------------------------------------------
(* The refinement.                                                         *)

\* The state of the service, read off the table.
LEMMA StatesOfStatuses ==
    /\ StateOf("ABSENT") = "unknown"
    /\ StateOf("PENDING") = "open" /\ StateOf("RETRYING") = "open"
    /\ StateOf("DELIVERED") = "delivered" /\ StateOf("FAILED") = "given_up"
    /\ \A status \in Statuses : /\ StateOf(status) = "open" <=> status \in {"PENDING", "RETRYING"}
                                /\ StateOf(status) = "unknown" <=> status = "ABSENT"
BY DEF StateOf, Statuses

state == [d \in Deliveries |-> StateOf(rows[d].status)]
attempts == [d \in Deliveries |-> rows[d].attempt_count]
due == [d \in Deliveries |-> rows[d].next_attempt_at]

\* With rows that can all be posted, no post is abandoned.
ServiceInv ==
    /\ FreshInv
    /\ AnswersTaken
    /\ DeliveredWasAccepted
    /\ orphans = {}

\* At first there are neither answers nor orphans.
LEMMA ServiceInitInv == Init => ServiceInv
BY FreshInit, AcceptedInit DEF AcceptedInv, ServiceInv, Init

\* Without a row that cannot be posted, no step leaves an orphan.
LEMMA ServiceInvStep ==
    ASSUME OneWorker, Poison = {}, ServiceInv, [Next]_vars
    PROVE  ServiceInv'
<1>1. FreshInv'
    BY FreshStep DEF ServiceInv
<1>2. AcceptedInv'
    BY AcceptedStep DEF ServiceInv, FreshInv, AcceptedInv
<1>3. orphans' = {}
    BY DEF ServiceInv, Next, WorkerStep, StartCycle, LoadBatch, FinishCycle, Post, GatherRaises, OrphanArrives,
           ReadBack, Commit, Rollback, CycleFails, Tick, vars, receiverVars
<1> QED
    BY <1>1, <1>2, <1>3 DEF ServiceInv, AcceptedInv

\* With one worker, and rows that can all be posted, every post of a row is
\* counted, still unrecorded, or paid for by a fault, one post for each
\* (jobs.py:298-312): no gather raises, so there is no post on the wire that
\* nobody waits for.  With a row that cannot be posted this is false.
THEOREM PostsAreCounted ==
    ASSUME OneWorker, Poison = {}
    PROVE  Spec => [](UncountedPostsAreFaults /\ orphans = {})
<1>1. ServiceInv => orphans = {}
    BY DEF ServiceInv
<1>2. ServiceInv /\ [Next]_vars => ServiceInv'
    BY ServiceInvStep
<1> QED
    BY <1>1, <1>2, WaitedPostsAreCounted, ServiceInitInv, PTL DEF Spec

\* The initial states are initial states of the service.
LEMMA ServiceInit == Init => Service!Init
BY StatesOfStatuses DEF Init, Service!Init, NoRow

\* What the service does not see.
LEMMA ServiceStutter ==
    ASSUME rows' = rows, accepted' = accepted, now' = now
    PROVE  UNCHANGED Service!serviceVars
BY DEF Service!serviceVars, StateOf

\* Evaluation queues new notifications, due at once.
LEMMA StartQueues ==
    ASSUME ServiceInv, NEW w \in Workers, StartCycle(w)
    PROVE  Service!Next
<1>1. PICK new \in SUBSET {d \in Deliveries : rows[d].status = "ABSENT"} :
          rows' = [d \in Deliveries |-> IF d \in new THEN PendingRow ELSE rows[d]]
    BY DEF StartCycle
<1>2. accepted' = accepted /\ now' = now
    BY DEF StartCycle, receiverVars
<1>3. \A d \in Deliveries : rows[d].status \in Statuses
    BY DEF ServiceInv, FreshInv, TypeOK, Row
<1>4. new \in SUBSET Deliveries /\ \A d \in new : state[d] = "unknown"
    BY StatesOfStatuses DEF state
<1>5. state' = [d \in Deliveries |-> IF d \in new THEN "open" ELSE state[d]]
    BY <1>1, StatesOfStatuses DEF state, PendingRow
<1>6. attempts' = attempts
    <2>1. \A d \in new : rows[d].attempt_count = 0
        BY DEF ServiceInv, FreshInv, AbsentIsNew
    <2> QED
        BY <1>1, <2>1 DEF attempts, PendingRow
<1>7. \A d \in new : due'[d] = now
    BY <1>1 DEF due, PendingRow
<1>8. \A d \in Deliveries : state[d] = "open" => due'[d] = due[d]
    BY <1>1, <1>4 DEF due
<1>9. Service!Queue(new)
    BY <1>2, <1>4, <1>5, <1>6, <1>7, <1>8 DEF Service!Queue, Service!Open, state, attempts, due
<1> QED
    BY <1>4, <1>9 DEF Service!Next

\* The receiver takes a notification that is open and due.
LEMMA PostTakes ==
    ASSUME ServiceInv, NEW w \in Workers, NEW d \in Deliveries, Post(w, d)
    PROVE  [Service!Next]_(Service!serviceVars)
<1>1. rows' = rows /\ now' = now /\ d \in batch[w]
    BY DEF Post, dbVars
<1>2. accepted' = accepted \/ accepted' = accepted \cup {d}
    BY DEF Post
<1>3. CASE accepted' = accepted
    BY <1>1, <1>3, ServiceStutter
<1>4. CASE accepted' = accepted \cup {d}
    <2>1. rows[d].status \in {"PENDING", "RETRYING"} /\ rows[d].next_attempt_at <= now
        BY <1>1 DEF ServiceInv, FreshInv, InFlightIsFresh
    <2>2. StateOf(rows[d].status) = "open"
        BY <2>1, StatesOfStatuses
    <2>3. Service!Take(d)
        BY <1>1, <1>4, <2>1, <2>2 DEF Service!Take, Service!Open, StateOf
    <2> QED
        BY <2>3 DEF Service!Next
<1> QED
    BY <1>2, <1>3, <1>4

\* What a commit writes is an outcome that happened.
LEMMA CommitRecords ==
    ASSUME ServiceInv, NEW w \in Workers, Commit(w)
    PROVE  Service!Next
<1>1. pc[w] = "apply" /\ accepted' = accepted /\ now' = now /\ batch[w] \in SUBSET Deliveries
    BY DEF Commit, receiverVars, ServiceInv, FreshInv, TypeOK
<1>2. \A d \in Deliveries :
          rows'[d] = IF d \in batch[w] THEN Assigned(rows[d], outcome[w][d], now) ELSE rows[d]
    BY <1>1, CommitWrites DEF Commit, ServiceInv
<1>3. ASSUME NEW d \in batch[w]
      PROVE  /\ state[d] = "open" /\ due[d] <= now
             /\ attempts'[d] = attempts[d] + 1
             /\ \/ state'[d] = "delivered" /\ d \in accepted
                \/ state'[d] = "given_up" /\ attempts'[d] = MaxRetries
                \/ state'[d] = "open" /\ attempts'[d] < MaxRetries /\ due'[d] > now
    <2>1. /\ d \in Deliveries /\ rows[d] \in Row
          /\ rows[d].status \in {"PENDING", "RETRYING"}
          /\ rows[d].attempt_count < MaxRetries
          /\ rows[d].attempt_count \in Nat /\ now \in Nat
          /\ rows[d].next_attempt_at <= now
        BY <1>1, CommitWrites DEF ServiceInv, FreshInv, InFlightIsFresh, TypeOK, Row
    <2>2. state[d] = "open" /\ due[d] <= now /\ attempts[d] = rows[d].attempt_count
        BY <2>1, StatesOfStatuses DEF state, due, attempts
    <2>3. /\ state'[d] = StateOf(rows'[d].status)
          /\ attempts'[d] = rows'[d].attempt_count /\ due'[d] = rows'[d].next_attempt_at
        BY <2>1 DEF state, attempts, due
    <2>4. rows'[d] = Assigned(rows[d], outcome[w][d], now)
        BY <1>2, <2>1
    <2>5. CASE IsSuccess(outcome[w][d])
        <3>1. /\ rows'[d].status = "DELIVERED"
              /\ rows'[d].attempt_count = rows[d].attempt_count + 1
            BY <2>4, <2>5 DEF Assigned, AfterSuccess
        <3>2. d \in accepted
            BY <2>5 DEF ServiceInv, AnswersTaken
        <3> QED
            BY <2>2, <2>3, <3>1, <3>2, StatesOfStatuses
    <2>6. CASE ~IsSuccess(outcome[w][d]) /\ Exhausted(rows[d])
        <3>1. /\ rows'[d].status = "FAILED"
              /\ rows'[d].attempt_count = rows[d].attempt_count + 1
            BY <2>4, <2>6 DEF Assigned, AfterFailure
        <3>2. rows[d].attempt_count + 1 = MaxRetries
            BY <2>1, <2>6, ConstantsAssumption DEF Exhausted
        <3> QED
            BY <2>2, <2>3, <3>1, <3>2, StatesOfStatuses
    <2>7. CASE ~IsSuccess(outcome[w][d]) /\ ~Exhausted(rows[d])
        <3>1. /\ rows'[d].status = "RETRYING"
              /\ rows'[d].attempt_count = rows[d].attempt_count + 1
              /\ rows'[d].next_attempt_at = now + BackoffMinutes(rows[d].attempt_count + 1)
            BY <2>4, <2>7 DEF Assigned, AfterFailure
        <3>2. rows[d].attempt_count + 1 < MaxRetries
            BY <2>1, <2>7, ConstantsAssumption DEF Exhausted
        <3>3. BackoffMinutes(rows[d].attempt_count + 1) \in Nat \ {0}
            BY <2>1, BackoffPositive
        <3>4. rows'[d].next_attempt_at > now
            BY <2>1, <3>1, <3>3
        <3> QED
            BY <2>2, <2>3, <3>1, <3>2, <3>4, StatesOfStatuses
    <2> QED
        BY <2>5, <2>6, <2>7
<1>4. \A d \in Deliveries \ batch[w] :
          state'[d] = state[d] /\ attempts'[d] = attempts[d] /\ due'[d] = due[d]
    BY <1>2 DEF state, attempts, due
<1>5. \A d \in batch[w] : Service!Recorded(d)
    BY <1>3 DEF Service!Recorded, state, attempts, due
<1>6. \A d \in batch[w] : d \in Service!Open /\ due[d] <= now
    BY <1>1, <1>3 DEF Service!Open, state
<1>7. \A d \in Service!Open \ batch[w] : due'[d] = due[d]
    BY <1>4 DEF Service!Open
<1>8. PICK tried \in SUBSET Deliveries : tried = batch[w]
    BY <1>1
<1>9. Service!Record(tried)
    BY <1>1, <1>4, <1>5, <1>6, <1>7, <1>8 DEF Service!Record, state, attempts, due
<1> QED
    BY <1>9 DEF Service!Next

\* Time passes.
LEMMA TickWaits ==
    ASSUME ServiceInv, Tick
    PROVE  Service!Next
<1>1. now' > now /\ rows' = rows /\ accepted' = accepted
    BY DEF ServiceInv, FreshInv, TypeOK, Tick, receiverVars
<1> QED
    BY <1>1 DEF Service!Next, Service!Wait, StateOf

\* Every step maps to a step of the service or to none.
LEMMA ServiceStep ==
    ASSUME Poison = {}, ServiceInv, [Next]_vars
    PROVE  [Service!Next]_(Service!serviceVars)
<1> USE DEF dbVars, receiverVars
<1>1. ASSUME NEW w \in Workers, StartCycle(w) PROVE Service!Next
    BY <1>1, StartQueues
<1>2. ASSUME NEW w \in Workers, NEW d \in Deliveries, Post(w, d)
      PROVE  [Service!Next]_(Service!serviceVars)
    BY <1>2, PostTakes
<1>3. ASSUME NEW w \in Workers, Commit(w) PROVE Service!Next
    BY <1>3, CommitRecords
<1>4. CASE Tick
    BY <1>4, TickWaits
<1>5. ASSUME NEW w \in Workers,
             LoadBatch(w) \/ FinishCycle(w) \/ GatherRaises(w) \/ ReadBack(w) \/ Rollback(w)
                \/ CycleFails(w)
      PROVE  UNCHANGED Service!serviceVars
    BY <1>5, ServiceStutter DEF LoadBatch, FinishCycle, GatherRaises, ReadBack, Rollback, CycleFails
<1>6. CASE OrphanArrives
    BY <1>6 DEF OrphanArrives, ServiceInv
<1>7. CASE UNCHANGED vars
    BY <1>7, ServiceStutter DEF vars
<1> QED
    BY <1>1, <1>2, <1>3, <1>4, <1>5, <1>6, <1>7 DEF Next, WorkerStep

\* One worker, with rows that can all be posted, implements the service
\* (README.md:163-166, jobs.py:174-316).
THEOREM ServiceImplemented ==
    ASSUME OneWorker, Poison = {}
    PROVE  Spec => ImplementsService
<1>1. ServiceInv /\ [Next]_vars => ServiceInv'
    BY ServiceInvStep
<1>2. ServiceInv /\ [Next]_vars => [Service!Next]_(Service!serviceVars)
    BY ServiceStep
<1> QED
    BY <1>1, <1>2, ServiceInitInv, ServiceInit, PTL DEF Spec, ImplementsService, Service!Spec

=============================================================================
