------------------------ MODULE EvaluationLoopProofs ------------------------
(***************************************************************************)
(* Theorems about EvaluationLoop.tla: any number of workers loop beside    *)
(* any requests.                                                           *)
(*                                                                         *)
(* The invariant says where a cycle is and what it has done by then: the   *)
(* alerts and the forecasts before its position, in the order of the       *)
(* queries, are done, and what matches among them is in its transaction    *)
(* or was in the table already (PassedOK).  At the commit all of it is     *)
(* before the position, so the transaction holds what CommitCycle writes;  *)
(* and on the way whatever a cycle has locked comes before what it waits   *)
(* for, so that cycles that wait form no circle.                           *)
(***************************************************************************)
EXTENDS EvaluationLoop, EvaluationProofs, FiniteSetTheorems

-----------------------------------------------------------------------------
(* The invariant.                                                          *)

Elements(s) == {s[i] : i \in DOMAIN s}

Ascending(s) == \A i, j \in DOMAIN s : i < j => s[i] < s[j]

InDateOrder(s) == \A i, j \in DOMAIN s : i < j => ForecastDate[s[i]] < ForecastDate[s[j]]

\* Forecast f matches alert a of the cycle, in the alert's own window.
Hit(w, a, f) ==
    /\ a \in DOMAIN found[w] /\ f \in DOMAIN candidates[w]
    /\ Considers(w, a, f)
    /\ ForecastMatches(found[w][a], candidates[w][f])

\* A cycle is past a hit.
Passed(w, a, f) ==
    /\ Hit(w, a, f)
    /\ \/ a \in assigned[w]
       \/ left[w] # << >> /\ a = Head(left[w]) /\ f \notin Elements(ahead[w])

\* s lists forecasts of an alert's field among rows in date order, the last of them.
LastOf(s, field, rows) ==
    /\ s \in Seq(DOMAIN rows) /\ InDateOrder(s)
    /\ \A f \in Elements(s) : ForecastField[f] = field
    /\ \A f \in OfField(rows, field) \ Elements(s) :
           \A g \in Elements(s) : ForecastDate[f] < ForecastDate[g]

\* Where a cycle is: at an alert after all it has assigned a stamp, and at a
\* hit of that alert, if it has one left.
PositionOK(w) ==
    /\ left[w] \in Seq(DOMAIN found[w]) /\ Ascending(left[w])
    /\ assigned[w] = DOMAIN found[w] \ Elements(left[w])
    /\ \A a \in assigned[w] : \A b \in Elements(left[w]) : a < b
    /\ left[w] = << >> => ahead[w] = << >>
    /\ left[w] # << >> =>
           /\ LastOf(ahead[w], found[w][Head(left[w])].field_id, candidates[w])
           /\ ahead[w] # << >> => Hit(w, Head(left[w]), Head(ahead[w]))

\* What a cycle has inserted: the hits it is past, those with a trigger excepted.
PassedOK(w) ==
    /\ \A t \in inserted[w] :
           /\ Passed(w, t.alert_id, t.weather_forecast_id)
           /\ t = Snapshot(w, t.alert_id, t.weather_forecast_id)
           /\ \A old \in triggers : Key(old) # Key(t)
    /\ \A a \in DOMAIN found[w], f \in DOMAIN candidates[w] :
           Passed(w, a, f) => \/ Snapshot(w, a, f) \in inserted[w]
                              \/ \E old \in triggers : Key(old) = << a, f >>

\* What a cycle has locked comes before the stamps it has still to write.
StampsOK(w) ==
    /\ locked[w] \subseteq assigned[w]
    /\ \A b \in Dirty(w) :
           /\ \A a \in locked[w] : a < b
           /\ \A t \in inserted[w] : t.alert_id <= b

\* Outside its loops a cycle has none of this.
NoLoop(w) ==
    /\ left[w] = << >> /\ ahead[w] = << >>
    /\ inserted[w] = {} /\ assigned[w] = {} /\ locked[w] = {}

WorkerOK(w) ==
    IF InLoop(w) THEN PositionOK(w) /\ PassedOK(w) /\ StampsOK(w) ELSE NoLoop(w)

\* Cycles hold different keys.
KeysDiffer ==
    \A w, v \in Workers : w # v =>
        \A t \in inserted[w], u \in inserted[v] : Key(t) # Key(u)

\* The locals of the loops are functions of the workers.
LoopLocals ==
    /\ left = [w \in Workers |-> left[w]]
    /\ ahead = [w \in Workers |-> ahead[w]]
    /\ inserted = [w \in Workers |-> inserted[w]]
    /\ assigned = [w \in Workers |-> assigned[w]]
    /\ locked = [w \in Workers |-> locked[w]]

LoopInv == EvalInv /\ LoopLocals /\ KeysDiffer /\ \A w \in Workers : WorkerOK(w)

-----------------------------------------------------------------------------
(* Lists.                                                                  *)

\* A list of a finite set holds all of it.
LEMMA ListElements ==
    ASSUME NEW S, IsFiniteSet(S), NEW s \in Lists(S)
    PROVE  s \in Seq(S) /\ Elements(s) = S
<1> DEFINE n == Cardinality(S)
<1>1. n \in Nat
    BY FS_CardinalityType
<1>2. Cardinality(1..n) = n
    BY <1>1, FS_Interval
<1>3. s \in [1..n -> S] /\ \A i, j \in 1..n : s[i] = s[j] => i = j
    BY DEF Lists
<1>4. s \in Injection(1..n, S)
    BY <1>3 DEF Injection, IsInjective
<1>5. s \in Surjection(1..n, S)
    BY <1>2, <1>4, FS_Injection
<1>6. \A x \in S : \E i \in 1..n : s[i] = x
    BY <1>5 DEF Surjection
<1>7. Elements(s) = S
    BY <1>3, <1>6 DEF Elements
<1> QED
    BY <1>1, <1>3, <1>7, SeqDef

\* The end of a list, from an index on.
LEMMA ListEnd ==
    ASSUME NEW S, NEW s \in Seq(S), NEW n \in 1..Len(s),
           NEW h \in [1..(Len(s) - n + 1) -> S],
           \A i \in 1..(Len(s) - n + 1) : h[i] = s[i + n - 1]
    PROVE  /\ h \in Seq(S) /\ h # << >> /\ Head(h) = s[n]
           /\ \A x : x \in Elements(h) <=> \E i \in n..Len(s) : x = s[i]
<1>1. /\ Len(s) \in Nat /\ DOMAIN s = 1..Len(s)
      /\ \A i \in DOMAIN s : s[i] \in S
    BY LenProperties, ElementOfSeq
<1>3. DOMAIN h = 1..(Len(s) - n + 1) /\ \A i \in DOMAIN h : h[i] = s[i + n - 1]
    OBVIOUS
<1>5. h \in Seq(S)
    BY <1>1, SeqDef
<1>6. h # << >> /\ Head(h) = s[n]
    <2>1. 1 \in DOMAIN h /\ h[1] = s[n]
        BY <1>1, <1>3
    <2>2. DOMAIN h = 1..Len(h) /\ Len(h) \in Nat
        BY <1>5, LenProperties
    <2>3. Len(h) # 0
        BY <2>1, <2>2
    <2>4. h # << >>
        BY <1>5, <2>3, EmptySeq
    <2>5. Head(h) = h[1]
        BY <1>5, <2>4, HeadTailProperties
    <2> QED
        BY <2>1, <2>4, <2>5
<1>7. \A x : x \in Elements(h) <=> \E i \in n..Len(s) : x = s[i]
    <2>1. \A i \in n..Len(s) : i - n + 1 \in DOMAIN h /\ h[i - n + 1] = s[i]
        BY <1>1, <1>3
    <2>2. \A i \in DOMAIN h : i + n - 1 \in n..Len(s)
        BY <1>1, <1>3
    <2>3. \A x \in Elements(h) : \E i \in n..Len(s) : x = s[i]
        BY <1>3, <2>2 DEF Elements
    <2>4. \A i \in n..Len(s) : s[i] \in Elements(h)
        BY <2>1 DEF Elements
    <2> QED
        BY <2>3, <2>4
<1> QED
    BY <1>5, <1>6, <1>7

\* A list without its head.
LEMMA ListTail ==
    ASSUME NEW S, NEW s \in Seq(S), s # << >>
    PROVE  /\ Tail(s) \in Seq(S) /\ Len(Tail(s)) = Len(s) - 1
           /\ DOMAIN s = 1..Len(s) /\ DOMAIN Tail(s) = 1..(Len(s) - 1)
           /\ Len(s) \in Nat \ {0} /\ Head(s) = s[1]
           /\ \A i \in DOMAIN Tail(s) : Tail(s)[i] = s[i + 1]
           /\ Elements(s) = {Head(s)} \cup Elements(Tail(s))
<1>1. /\ Tail(s) \in Seq(S) /\ Len(Tail(s)) = Len(s) - 1
      /\ \A i \in 1..(Len(s) - 1) : Tail(s)[i] = s[i + 1]
    BY HeadTailProperties
<1>2. /\ Len(s) \in Nat \ {0} /\ DOMAIN s = 1..Len(s)
      /\ DOMAIN Tail(s) = 1..(Len(s) - 1)
    BY <1>1, LenProperties, EmptySeq
<1>3. Head(s) = s[1]
    BY HeadTailProperties
<1>4. Elements(s) = {s[1]} \cup Elements(Tail(s))
    <2>1. \A i \in DOMAIN s : i = 1 \/ (i - 1 \in DOMAIN Tail(s) /\ Tail(s)[i - 1] = s[i])
        BY <1>1, <1>2
    <2>2. \A i \in DOMAIN Tail(s) : i + 1 \in DOMAIN s /\ Tail(s)[i] = s[i + 1]
        BY <1>1, <1>2
    <2>3. 1 \in DOMAIN s
        BY <1>2
    <2>4. Elements(s) \subseteq {s[1]} \cup Elements(Tail(s))
        BY <2>1 DEF Elements
    <2>5. {s[1]} \cup Elements(Tail(s)) \subseteq Elements(s)
        BY <2>2, <2>3 DEF Elements
    <2> QED
        BY <2>4, <2>5
<1> QED
    BY <1>1, <1>2, <1>3, <1>4

\* An ascending list without its head.
LEMMA AscendingTail ==
    ASSUME NEW S \in SUBSET Int, NEW s \in Seq(S), s # << >>, Ascending(s)
    PROVE  /\ Ascending(Tail(s))
           /\ Head(s) \in S
           /\ \A b \in Elements(Tail(s)) : Head(s) < b
           /\ Elements(Tail(s)) = Elements(s) \ {Head(s)}
<1>1. /\ DOMAIN s = 1..Len(s) /\ DOMAIN Tail(s) = 1..(Len(s) - 1)
      /\ Len(s) \in Nat \ {0} /\ Head(s) = s[1]
      /\ \A i \in DOMAIN Tail(s) : Tail(s)[i] = s[i + 1]
      /\ Elements(s) = {Head(s)} \cup Elements(Tail(s))
    BY ListTail
<1>2. \A i \in DOMAIN s : s[i] \in S
    BY <1>1, ElementOfSeq
<1>3. Ascending(Tail(s))
    BY <1>1 DEF Ascending
<1>4. \A b \in Elements(Tail(s)) : Head(s) < b
    BY <1>1 DEF Ascending, Elements
<1>5. Head(s) \in S /\ Head(s) \in Int
    <2>1. 1 \in DOMAIN s
        BY <1>1
    <2>2. s[1] \in S
        BY <1>2, <2>1
    <2> QED
        BY <1>1, <2>2
<1>6. Head(s) \notin Elements(Tail(s))
    BY <1>4, <1>5
<1>7. Elements(Tail(s)) = Elements(s) \ {Head(s)}
    BY <1>1, <1>6
<1> QED
    BY <1>3, <1>4, <1>5, <1>7

\* A list in date order without its head: dates ascend and no forecast repeats.
LEMMA DateOrderTail ==
    ASSUME NEW s \in Seq(Forecasts), s # << >>, InDateOrder(s)
    PROVE  /\ InDateOrder(Tail(s))
           /\ Head(s) \in Elements(s) /\ Head(s) \in Forecasts
           /\ \A g \in Elements(Tail(s)) : ForecastDate[Head(s)] < ForecastDate[g]
           /\ Elements(Tail(s)) = Elements(s) \ {Head(s)}
<1>1. /\ DOMAIN s = 1..Len(s) /\ DOMAIN Tail(s) = 1..(Len(s) - 1)
      /\ Len(s) \in Nat \ {0} /\ Head(s) = s[1]
      /\ \A i \in DOMAIN Tail(s) : Tail(s)[i] = s[i + 1]
      /\ Elements(s) = {Head(s)} \cup Elements(Tail(s))
    BY ListTail
<1>2. \A i \in DOMAIN s : s[i] \in Forecasts
    BY <1>1, ElementOfSeq
<1>3. InDateOrder(Tail(s))
    BY <1>1 DEF InDateOrder
<1>4. \A g \in Elements(Tail(s)) : ForecastDate[Head(s)] < ForecastDate[g]
    BY <1>1 DEF InDateOrder, Elements
<1>5. Head(s) \in Forecasts
    BY <1>1, <1>2
<1>6. Head(s) \notin Elements(Tail(s))
    BY <1>4, <1>5, EvaluationAssumption
<1>7. Elements(Tail(s)) = Elements(s) \ {Head(s)}
    BY <1>1, <1>6
<1> QED
    BY <1>1, <1>3, <1>4, <1>5, <1>7

-----------------------------------------------------------------------------
(* The inner loop.                                                         *)

\* The end of a list from its n-th element on.
LEMMA EndOfList ==
    ASSUME NEW S, NEW s \in Seq(S), NEW n \in 1..Len(s)
    PROVE  SubSeq(s, n, Len(s)) = [i \in 1..(Len(s) - n + 1) |-> s[i + n - 1]]
OBVIOUS

\* The inner loop goes on to the next hit, past forecasts that are none, and
\* keeps the order.
LEMMA GoneOn ==
    ASSUME ahead = [v \in Workers |-> ahead[v]],
           NEW w \in Workers, NEW a, NEW rows, DOMAIN rows \subseteq Forecasts,
           NEW s \in Seq(DOMAIN rows), InDateOrder(s), day[w] \in Int,
           found[w][a].lookahead_days \in Int,
           \A f \in Elements(s) : ForecastField[f] = found[w][a].field_id,
           GoOn(w, a, s, rows)
    PROVE  /\ ahead' = [v \in Workers |-> ahead'[v]]
           /\ \A v \in Workers \ {w} : ahead'[v] = ahead[v]
           /\ ahead'[w] \in Seq(DOMAIN rows) /\ InDateOrder(ahead'[w])
           /\ Elements(ahead'[w]) \subseteq Elements(s)
           /\ ahead'[w] # << >> =>
                  /\ Considers(w, a, Head(ahead'[w]))
                  /\ ForecastMatches(found[w][a], rows[Head(ahead'[w])])
           /\ \A f \in Elements(s) \ Elements(ahead'[w]) :
                  /\ ~(Considers(w, a, f) /\ ForecastMatches(found[w][a], rows[f]))
                  /\ \A g \in Elements(ahead'[w]) : ForecastDate[f] < ForecastDate[g]
<1> DEFINE AtHit(n) ==
           /\ n <= Len(s)
           /\ Considers(w, a, s[n]) /\ ForecastMatches(found[w][a], rows[s[n]])
           /\ ahead' = [ahead EXCEPT ![w] = SubSeq(s, n, Len(s))]
           AtEnd(n) ==
           /\ n <= Len(s) => ~Considers(w, a, s[n])
           /\ ahead' = [ahead EXCEPT ![w] = << >>]
<1>1. PICK n \in 1..(Len(s) + 1) :
          /\ \A i \in 1..(n - 1) :
                 Considers(w, a, s[i]) /\ ~ForecastMatches(found[w][a], rows[s[i]])
          /\ AtHit(n) \/ AtEnd(n)
    BY DEF GoOn
<1>2. /\ Len(s) \in Nat /\ DOMAIN s = 1..Len(s)
      /\ \A i \in DOMAIN s : s[i] \in DOMAIN rows
    BY LenProperties, ElementOfSeq
<1>3. /\ ahead' = [v \in Workers |-> ahead'[v]]
      /\ \A v \in Workers \ {w} : ahead'[v] = ahead[v]
    BY <1>1
<1>4. CASE AtHit(n)
    <2>1. PICK h : ahead'[w] = h /\ h = SubSeq(s, n, Len(s))
        BY <1>4
    <2>2. n \in 1..Len(s)
        BY <1>2, <1>4
    <2>3. /\ h \in [1..(Len(s) - n + 1) -> DOMAIN rows]
          /\ \A i \in 1..(Len(s) - n + 1) : h[i] = s[i + n - 1]
        <3>1. h = [i \in 1..(Len(s) - n + 1) |-> s[i + n - 1]]
            <4> HIDE DEF AtHit, AtEnd
            <4> QED
                BY <2>1, <2>2, EndOfList
        <3> QED
            BY <1>2, <2>2, <3>1
    <2>4. /\ h \in Seq(DOMAIN rows) /\ h # << >> /\ Head(h) = s[n]
          /\ \A x : x \in Elements(h) <=> \E i \in n..Len(s) : x = s[i]
        BY <2>2, <2>3, ListEnd
    <2>5. InDateOrder(h)
        <3> SUFFICES ASSUME NEW i \in DOMAIN h, NEW j \in DOMAIN h, i < j
                     PROVE  ForecastDate[h[i]] < ForecastDate[h[j]]
            BY DEF InDateOrder
        <3>1. /\ i + n - 1 \in DOMAIN s /\ j + n - 1 \in DOMAIN s
              /\ i + n - 1 < j + n - 1
            BY <1>2, <2>2, <2>3
        <3> QED
            BY <2>3, <3>1 DEF InDateOrder
    <2>6. Elements(h) \subseteq Elements(s)
        <3>1. \A i \in n..Len(s) : s[i] \in Elements(s)
            BY <1>2, <2>2 DEF Elements
        <3> QED
            BY <2>4, <3>1
    <2>7. ASSUME NEW f \in Elements(s) \ Elements(h)
          PROVE  /\ ~(Considers(w, a, f) /\ ForecastMatches(found[w][a], rows[f]))
                 /\ \A g \in Elements(h) : ForecastDate[f] < ForecastDate[g]
        <3>1. PICK i \in 1..Len(s) : f = s[i]
            BY <1>2 DEF Elements
        <3>2. i \in 1..(n - 1) /\ f = s[i]
            BY <1>2, <2>2, <2>4, <3>1
        <3>3. \A j \in n..Len(s) : ForecastDate[s[i]] < ForecastDate[s[j]]
            BY <1>2, <2>2, <3>2 DEF InDateOrder
        <3> QED
            BY <1>1, <2>4, <3>2, <3>3
    <2> QED
        BY <1>3, <1>4, <2>1, <2>4, <2>5, <2>6, <2>7
<1>5. CASE AtEnd(n)
    <2>1. ahead'[w] = << >>
        BY <1>5
    <2>2. << >> \in Seq(DOMAIN rows) /\ InDateOrder(<< >>) /\ Elements(<< >>) = {}
        BY EmptySeq DEF InDateOrder, Elements
    <2>3. ASSUME NEW f \in Elements(s)
          PROVE  ~(Considers(w, a, f) /\ ForecastMatches(found[w][a], rows[f]))
        <3>1. PICK i \in 1..Len(s) : f = s[i]
            BY <1>2 DEF Elements
        <3>2. CASE i < n
            BY <1>1, <1>2, <3>1, <3>2
        <3>3. CASE i >= n
            <4>1. n \in 1..Len(s) /\ ~Considers(w, a, s[n])
                BY <1>2, <1>5, <3>3
            <4>2. s[n] \in Forecasts /\ f \in Forecasts
                  /\ ForecastField[s[n]] = found[w][a].field_id
                BY <1>2, <3>1, <4>1 DEF Elements
            <4>3. ForecastDate[s[n]] <= ForecastDate[f]
                BY <1>2, <3>1, <3>3, <4>1, <4>2, EvaluationAssumption DEF InDateOrder
            <4> QED
                BY <4>1, <4>2, <4>3, EvaluationAssumption DEF Considers
        <3> QED
            BY <1>2, <3>2, <3>3
    <2> QED
        BY <1>3, <2>1, <2>2, <2>3
<1> QED
    BY <1>1, <1>4, <1>5

\* What a cycle loops over.
LEMMA CycleData ==
    ASSUME EvalInv, NEW w \in Workers
    PROVE  /\ DOMAIN found[w] \in SUBSET Int /\ IsFiniteSet(DOMAIN found[w])
           /\ \A a \in DOMAIN found[w] : found[w][a].lookahead_days \in Int
           /\ DOMAIN candidates[w] \subseteq Forecasts /\ IsFiniteSet(DOMAIN candidates[w])
           /\ day[w] \in Int
<1>1. /\ DOMAIN found[w] \subseteq AlertIds /\ DOMAIN candidates[w] \subseteq Forecasts
      /\ \A a \in DOMAIN found[w] : found[w][a] \in AlertRow
      /\ day[w] \in Int
    BY Locals DEF InOrder
<1>2. Len(alerts) \in Nat /\ AlertIds = 1..Len(alerts)
    BY Ids DEF EvalInv, ApiInv
<1>3. IsFiniteSet(AlertIds)
    BY <1>2, FS_Interval
<1>4. IsFiniteSet(DOMAIN found[w]) /\ IsFiniteSet(DOMAIN candidates[w])
    BY <1>1, <1>3, LoopAssumption, FS_Subset
<1>5. \A a \in DOMAIN found[w] : found[w][a].lookahead_days \in Int
    BY <1>1 DEF AlertRow
<1> QED
    BY <1>1, <1>2, <1>4, <1>5

\* The outer loop turns to an alert: what the inner loop has passed by then is
\* no hit.
LEMMA TurnedTo ==
    ASSUME LoopLocals, NEW w \in Workers,
           NEW rows, DOMAIN rows \subseteq Forecasts,
           NEW s \in Seq(DOMAIN found[w]), day[w] \in Int,
           \A a \in DOMAIN found[w] : found[w][a].lookahead_days \in Int,
           TurnTo(w, s, rows)
    PROVE  /\ left' = [v \in Workers |-> left'[v]] /\ ahead' = [v \in Workers |-> ahead'[v]]
           /\ \A v \in Workers \ {w} : left'[v] = left[v] /\ ahead'[v] = ahead[v]
           /\ left'[w] = s
           /\ s = << >> => ahead'[w] = << >>
           /\ s # << >> =>
                  /\ LastOf(ahead'[w], found[w][Head(s)].field_id, rows)
                  /\ ahead'[w] # << >> =>
                         /\ Head(ahead'[w]) \in DOMAIN rows
                         /\ Considers(w, Head(s), Head(ahead'[w]))
                         /\ ForecastMatches(found[w][Head(s)], rows[Head(ahead'[w])])
                  /\ \A f \in DOMAIN rows \ Elements(ahead'[w]) :
                         ~(/\ Considers(w, Head(s), f)
                           /\ ForecastMatches(found[w][Head(s)], rows[f]))
<1>1. /\ left' = [v \in Workers |-> left'[v]] /\ left'[w] = s
      /\ \A v \in Workers \ {w} : left'[v] = left[v]
    BY DEF TurnTo, LoopLocals
<1>2. CASE s = << >>
    BY <1>1, <1>2 DEF TurnTo, LoopLocals
<1>3. CASE s # << >>
    <2> DEFINE a == Head(s)
               field == found[w][a].field_id
               of == OfField(rows, field)
    <2>1. PICK order \in ForecastOrders(of) : GoOn(w, a, order, rows)
        BY <1>3 DEF TurnTo
    <2>2. a \in DOMAIN found[w]
        BY <1>3, HeadTailProperties
    <2>3. of \subseteq DOMAIN rows /\ \A f \in of : ForecastField[f] = field
        BY DEF OfField
    <2>4. IsFiniteSet(of)
        BY <2>3, LoopAssumption, FS_Subset
    <2>5. order \in Lists(of) /\ InDateOrder(order)
        BY <2>1 DEF ForecastOrders, InDateOrder
    <2>6. order \in Seq(of) /\ Elements(order) = of
        BY <2>4, <2>5, ListElements
    <2>7. order \in Seq(DOMAIN rows)
        BY <2>3, <2>6, SeqDef
    <2> HIDE DEF of, a
    <2>8. /\ ahead' = [v \in Workers |-> ahead'[v]]
          /\ \A v \in Workers \ {w} : ahead'[v] = ahead[v]
          /\ ahead'[w] \in Seq(DOMAIN rows) /\ InDateOrder(ahead'[w])
          /\ Elements(ahead'[w]) \subseteq of
          /\ ahead'[w] # << >> =>
                 /\ Considers(w, a, Head(ahead'[w]))
                 /\ ForecastMatches(found[w][a], rows[Head(ahead'[w])])
          /\ \A f \in of \ Elements(ahead'[w]) :
                 /\ ~(Considers(w, a, f) /\ ForecastMatches(found[w][a], rows[f]))
                 /\ \A g \in Elements(ahead'[w]) : ForecastDate[f] < ForecastDate[g]
        BY <2>1, <2>2, <2>3, <2>5, <2>6, <2>7, GoneOn DEF LoopLocals
    <2>9. LastOf(ahead'[w], field, rows)
        BY <2>3, <2>8 DEF LastOf, of
    <2>10. ahead'[w] # << >> => Head(ahead'[w]) \in DOMAIN rows
        BY <2>8, HeadTailProperties
    <2>11. \A f \in DOMAIN rows \ of : ~Considers(w, a, f)
        BY DEF OfField, Considers, of
    <2> QED
        BY <1>1, <1>3, <2>8, <2>9, <2>10, <2>11 DEF a
<1> QED
    BY <1>2, <1>3

-----------------------------------------------------------------------------
(* What a step leaves alone.                                               *)

\* Hits and their triggers are made of what the cycle has loaded.
LEMMA SameHits ==
    ASSUME NEW w, found'[w] = found[w], candidates'[w] = candidates[w], day'[w] = day[w]
    PROVE  \A a, f : /\ Hit(w, a, f)' <=> Hit(w, a, f)
                     /\ Snapshot(w, a, f)' = Snapshot(w, a, f)
BY DEF Hit, Considers, ForecastMatches, Snapshot

\* A cycle stays where it is while others move, also when one commits triggers
\* of other keys.
LEMMA OtherWorker ==
    ASSUME NEW v \in Workers, WorkerOK(v),
           phase'[v] = phase[v], day'[v] = day[v], found'[v] = found[v],
           candidates'[v] = candidates[v], left'[v] = left[v], ahead'[v] = ahead[v],
           inserted'[v] = inserted[v], assigned'[v] = assigned[v], locked'[v] = locked[v],
           triggers \subseteq triggers',
           \A t \in triggers' \ triggers : \A u \in inserted[v] : Key(t) # Key(u)
    PROVE  WorkerOK(v)'
<1>1. \A a, f : /\ Hit(v, a, f)' <=> Hit(v, a, f)
                /\ Snapshot(v, a, f)' = Snapshot(v, a, f)
    BY SameHits
<1>2. \A a, f : Passed(v, a, f)' <=> Passed(v, a, f)
    BY <1>1 DEF Passed
<1>3. PositionOK(v) => PositionOK(v)'
    BY <1>1 DEF PositionOK
<1>4. PassedOK(v) => PassedOK(v)'
    BY <1>1, <1>2 DEF PassedOK, Key
<1>5. StampsOK(v) => StampsOK(v)'
    BY DEF StampsOK, Dirty
<1> QED
    BY <1>3, <1>4, <1>5 DEF WorkerOK, InLoop, NoLoop

\* The other cycles keep what they hold.
OthersKeep(w) ==
    \A v \in Workers \ {w} :
        /\ phase'[v] = phase[v] /\ day'[v] = day[v]
        /\ found'[v] = found[v] /\ candidates'[v] = candidates[v]
        /\ left'[v] = left[v] /\ ahead'[v] = ahead[v]
        /\ inserted'[v] = inserted[v] /\ assigned'[v] = assigned[v] /\ locked'[v] = locked[v]

\* The parts of the invariant that the loops add.
LoopsOK == LoopLocals /\ KeysDiffer /\ \A w \in Workers : WorkerOK(w)

\* A step of one cycle, which may add keys that no other has, and may commit its
\* own.
LEMMA OneLoopMoves ==
    ASSUME LoopsOK, NEW w \in Workers, OthersKeep(w), LoopLocals', WorkerOK(w)',
           \A t \in inserted'[w] \ inserted[w] :
               \A v \in Workers \ {w} : \A u \in inserted[v] : Key(u) # Key(t),
           triggers \subseteq triggers', triggers' \ triggers \subseteq inserted[w]
    PROVE  LoopsOK'
<1>1. ASSUME NEW v \in Workers \ {w} PROVE WorkerOK(v)'
    <2>1. \A t \in inserted[w], u \in inserted[v] : Key(t) # Key(u)
        BY DEF LoopsOK, KeysDiffer
    <2> QED
        BY <2>1, OtherWorker DEF OthersKeep, LoopsOK
<1>2. KeysDiffer'
    <2> SUFFICES ASSUME NEW x \in Workers, NEW y \in Workers, x # y,
                        NEW t \in inserted'[x], NEW u \in inserted'[y]
                 PROVE  Key(t) # Key(u)
        BY DEF KeysDiffer, Key
    <2>1. ASSUME NEW v \in Workers \ {w}, NEW p \in inserted'[w], NEW q \in inserted[v]
          PROVE  Key(p) # Key(q)
        BY <2>1 DEF LoopsOK, KeysDiffer
    <2>2. \A v \in Workers \ {w} : inserted'[v] = inserted[v]
        BY DEF OthersKeep
    <2>3. CASE x = w
        BY <2>1, <2>2, <2>3
    <2>4. CASE y = w
        BY <2>1, <2>2, <2>4
    <2>5. CASE x # w /\ y # w
        BY <2>2, <2>5 DEF LoopsOK, KeysDiffer
    <2> QED
        BY <2>3, <2>4, <2>5
<1> QED
    BY <1>1, <1>2 DEF LoopsOK

\* What a cycle has inserted stays what it should be while it passes no hit.
LEMMA SamePassed ==
    ASSUME NEW w \in Workers, PassedOK(w),
           found'[w] = found[w], candidates'[w] = candidates[w], day'[w] = day[w],
           inserted'[w] = inserted[w], triggers' = triggers,
           \A a, f : Passed(w, a, f)' <=> Passed(w, a, f)
    PROVE  PassedOK(w)'
<1>1. \A a, f : Snapshot(w, a, f)' = Snapshot(w, a, f)
    BY SameHits
<1> QED
    BY <1>1 DEF PassedOK, Key

-----------------------------------------------------------------------------
(* Steps of a cycle.                                                       *)

\* The queries: the loops start at the first alert, and before its first hit.
LEMMA QueryLoops ==
    ASSUME LoopInv, NEW w \in Workers, Query(w)
    PROVE  LoopsOK'
<1>1. EvalInv /\ LoopLocals /\ LoopsOK
    BY DEF LoopInv, LoopsOK
<1>2. CASE LoadAlerts(w) /\ UNCHANGED loopVars
    <2>1. phase[w] = "asleep" /\ phase'[w] = "forecasts" /\ triggers' = triggers
        BY <1>1, <1>2, Locals DEF LoadAlerts
    <2>2. OthersKeep(w)
        BY <1>1, <1>2, Locals DEF LoadAlerts, OthersKeep, loopVars
    <2>3. NoLoop(w)
        BY <2>1, <1>1 DEF LoopsOK, WorkerOK, InLoop
    <2>4. WorkerOK(w)' /\ LoopLocals' /\ inserted'[w] = inserted[w]
        BY <1>1, <1>2, <2>1, <2>3 DEF WorkerOK, InLoop, NoLoop, LoopLocals, loopVars
    <2> QED
        BY <1>1, <2>1, <2>2, <2>4, OneLoopMoves
<1>3. ASSUME LoadForecasts(w),
             NEW order \in AlertOrders(DOMAIN found[w]),
             TurnTo(w, order, candidates'[w]),
             UNCHANGED << inserted, assigned, locked >>
      PROVE  LoopsOK'
    <2> DEFINE rows == candidates'[w]
    <2>1. /\ phase[w] = "forecasts" /\ phase'[w] = "insert" /\ triggers' = triggers
          /\ found' = found /\ day' = day
          /\ \A v \in Workers \ {w} : phase'[v] = phase[v] /\ candidates'[v] = candidates[v]
          /\ DOMAIN rows \subseteq Forecasts
        BY <1>1, <1>3, Locals DEF LoadForecasts, CandidateForecasts
    <2>2. NoLoop(w)
        BY <2>1, <1>1 DEF LoopsOK, WorkerOK, InLoop
    <2>3. /\ order \in Seq(DOMAIN found[w]) /\ Elements(order) = DOMAIN found[w]
          /\ Ascending(order)
        BY <1>1, <1>3, CycleData, ListElements DEF AlertOrders, Ascending
    <2>4. /\ left' = [v \in Workers |-> left'[v]] /\ ahead' = [v \in Workers |-> ahead'[v]]
          /\ \A v \in Workers \ {w} : left'[v] = left[v] /\ ahead'[v] = ahead[v]
          /\ left'[w] = order
          /\ order = << >> => ahead'[w] = << >>
          /\ order # << >> =>
                 /\ LastOf(ahead'[w], found[w][Head(order)].field_id, rows)
                 /\ ahead'[w] # << >> =>
                        /\ Head(ahead'[w]) \in DOMAIN rows
                        /\ Considers(w, Head(order), Head(ahead'[w]))
                        /\ ForecastMatches(found[w][Head(order)], rows[Head(ahead'[w])])
                 /\ \A f \in DOMAIN rows \ Elements(ahead'[w]) :
                        ~(/\ Considers(w, Head(order), f)
                          /\ ForecastMatches(found[w][Head(order)], rows[f]))
        BY <1>1, <1>3, <2>1, <2>3, CycleData, TurnedTo
    <2> HIDE DEF rows
    <2>5. \A a, f : Hit(w, a, f)' <=> /\ a \in DOMAIN found[w] /\ f \in DOMAIN rows
                                      /\ Considers(w, a, f)
                                      /\ ForecastMatches(found[w][a], rows[f])
        BY <2>1 DEF Hit, Considers, ForecastMatches, rows
    <2>6. inserted'[w] = {} /\ assigned'[w] = {} /\ locked'[w] = {}
        BY <1>3, <2>2 DEF NoLoop
    <2>7. PositionOK(w)'
        <3>1. order # << >> => Head(order) \in DOMAIN found[w]
            BY <2>3, HeadTailProperties
        <3> QED
            BY <2>1, <2>3, <2>4, <2>5, <2>6, <3>1 DEF PositionOK, rows
    <2>8. PassedOK(w)'
        <3>1. \A a, f : ~Passed(w, a, f)'
            BY <2>4, <2>5, <2>6 DEF Passed
        <3> QED
            BY <2>6, <3>1 DEF PassedOK
    <2>9. StampsOK(w)'
        BY <2>6 DEF StampsOK, Dirty
    <2>10. OthersKeep(w) /\ LoopLocals'
        BY <1>1, <1>3, <2>1, <2>4 DEF OthersKeep, LoopLocals
    <2>11. WorkerOK(w)'
        BY <2>1, <2>7, <2>8, <2>9 DEF WorkerOK, InLoop
    <2> QED
        BY <1>1, <2>1, <2>6, <2>10, <2>11, OneLoopMoves
<1> QED
    BY <1>2, <1>3 DEF Query

\* A cycle in its loops.
LEMMA InItsLoop ==
    ASSUME LoopInv, NEW w \in Workers, InLoop(w)
    PROVE  /\ EvalInv /\ LoopLocals /\ LoopsOK
           /\ PositionOK(w) /\ PassedOK(w) /\ StampsOK(w)
BY DEF LoopInv, LoopsOK, WorkerOK

\* What is at the position of a cycle.
LEMMA AtPosition ==
    ASSUME LoopInv, NEW w \in Workers, InLoop(w), left[w] # << >>
    PROVE  /\ Head(left[w]) \in DOMAIN found[w] /\ Head(left[w]) \in Elements(left[w])
           /\ Head(left[w]) \notin assigned[w]
           /\ \A b \in assigned[w] : b < Head(left[w])
<1>1. PositionOK(w) /\ DOMAIN found[w] \in SUBSET Int
    BY InItsLoop, CycleData
<1>2. Head(left[w]) \in DOMAIN found[w] /\ Head(left[w]) \in Elements(left[w])
    BY <1>1, ListTail, HeadTailProperties DEF PositionOK
<1> QED
    BY <1>1, <1>2 DEF PositionOK

\* The INSERT: the trigger of the hit, if none has its key, and on to the next.
LEMMA InsertLoops ==
    ASSUME LoopInv, NEW w \in Workers, Insert(w)
    PROVE  LoopsOK'
<1> DEFINE a == Head(left[w])
           f == Head(ahead[w])
           rest == Tail(ahead[w])
           rows == candidates[w]
           t == NextTrigger(w)
<1>1. /\ InLoop(w) /\ ahead[w] # << >> /\ Dirty(w) = {}
      /\ \A v \in Workers \ {w} : \A u \in inserted[v] : Key(u) # Key(t)
    BY DEF Insert, Inserting, Flushing, Waits, WaitsFor
<1>2. /\ inserted' = [inserted EXCEPT ![w] =
             @ \cup {u \in {t} : \A old \in triggers : Key(old) # Key(u)}]
      /\ GoOn(w, a, rest, rows)
      /\ UNCHANGED << phase, day, found, candidates, triggers, left, assigned, locked >>
    BY DEF Insert, vars, evalVars, workerVars
<1>3. EvalInv /\ LoopLocals /\ LoopsOK /\ PositionOK(w) /\ PassedOK(w) /\ StampsOK(w)
    BY <1>1, InItsLoop
<1>4. left[w] # << >> /\ Hit(w, a, f) /\ LastOf(ahead[w], found[w][a].field_id, rows)
    BY <1>1, <1>3 DEF PositionOK
<1>5. a \in DOMAIN found[w] /\ a \notin assigned[w]
    BY <1>1, <1>4, AtPosition
<1>6. /\ rows = candidates[w] /\ DOMAIN rows \subseteq Forecasts /\ day[w] \in Int
      /\ found[w][a].lookahead_days \in Int
    BY <1>3, <1>5, CycleData
<1>7. t = Snapshot(w, a, f) /\ Key(t) = << a, f >> /\ t.alert_id = a /\ t.weather_forecast_id = f
    BY DEF NextTrigger, Snapshot, Key
<1>8. ahead[w] \in Seq(Forecasts) /\ ahead[w] \in Seq(DOMAIN rows) /\ InDateOrder(ahead[w])
    BY <1>4, <1>6, SeqDef DEF LastOf
<1> HIDE DEF a, rows, t
<1>9. /\ rest \in Seq(DOMAIN rows) /\ InDateOrder(rest) /\ f \in Elements(ahead[w])
      /\ \A g \in Elements(rest) : ForecastDate[f] < ForecastDate[g]
      /\ Elements(rest) = Elements(ahead[w]) \ {f}
    BY <1>1, <1>8, DateOrderTail, ListTail
<1> HIDE DEF f, rest
<1>10. \A g \in Elements(rest) : ForecastField[g] = found[w][a].field_id
    BY <1>4, <1>9 DEF LastOf
<1>11. /\ ahead' = [v \in Workers |-> ahead'[v]]
       /\ \A v \in Workers \ {w} : ahead'[v] = ahead[v]
       /\ ahead'[w] \in Seq(DOMAIN rows) /\ InDateOrder(ahead'[w])
       /\ Elements(ahead'[w]) \subseteq Elements(rest)
       /\ ahead'[w] # << >> =>
              /\ Considers(w, a, Head(ahead'[w]))
              /\ ForecastMatches(found[w][a], rows[Head(ahead'[w])])
       /\ \A g \in Elements(rest) \ Elements(ahead'[w]) :
              /\ ~(Considers(w, a, g) /\ ForecastMatches(found[w][a], rows[g]))
              /\ \A h \in Elements(ahead'[w]) : ForecastDate[g] < ForecastDate[h]
    <2>1. ahead = [v \in Workers |-> ahead[v]] /\ GoOn(w, a, rest, rows)
        BY <1>2, <1>3 DEF LoopLocals
    <2> QED
        BY <1>6, <1>9, <1>10, <2>1, GoneOn
<1>12. \A b, g : /\ Hit(w, b, g)' <=> Hit(w, b, g)
                 /\ Snapshot(w, b, g)' = Snapshot(w, b, g)
    BY <1>2, SameHits
<1>13. PositionOK(w)'
    <2>1. LastOf(ahead'[w], found[w][a].field_id, rows)
        BY <1>4, <1>9, <1>10, <1>11 DEF LastOf
    <2>2. ahead'[w] # << >> => Hit(w, a, Head(ahead'[w]))
        BY <1>5, <1>6, <1>11, HeadTailProperties DEF Hit
    <2> QED
        BY <1>2, <1>3, <1>4, <1>6, <1>12, <2>1, <2>2 DEF PositionOK, a
<1>14. \A b, g : Passed(w, b, g)' <=> Passed(w, b, g) \/ (b = a /\ g = f)
    BY <1>2, <1>4, <1>5, <1>6, <1>9, <1>11, <1>12 DEF Passed, a, Hit
<1>15. inserted'[w] = inserted[w] \cup {u \in {t} : \A old \in triggers : Key(old) # Key(u)}
    BY <1>2, <1>3 DEF LoopLocals
<1>16. PassedOK(w)'
    <2>1. ASSUME NEW u \in inserted'[w]
          PROVE  /\ Passed(w, u.alert_id, u.weather_forecast_id)'
                 /\ u = Snapshot(w, u.alert_id, u.weather_forecast_id)'
                 /\ \A old \in triggers' : Key(old) # Key(u)
        BY <1>2, <1>3, <1>7, <1>12, <1>14, <1>15 DEF PassedOK
    <2>2. ASSUME NEW b, NEW g, Passed(w, b, g)', b \in DOMAIN found[w], g \in DOMAIN candidates[w]
          PROVE  \/ Snapshot(w, b, g)' \in inserted'[w]
                 \/ \E old \in triggers' : Key(old) = << b, g >>
        BY <1>2, <1>3, <1>7, <1>12, <1>14, <1>15, <2>2 DEF PassedOK
    <2> QED
        BY <1>2, <2>1, <2>2 DEF PassedOK, Key
<1>17. StampsOK(w)'
    BY <1>1, <1>2, <1>3 DEF StampsOK, Dirty
<1>18. WorkerOK(w)' /\ OthersKeep(w) /\ LoopLocals'
    BY <1>1, <1>2, <1>3, <1>11, <1>13, <1>16, <1>17
        DEF WorkerOK, InLoop, OthersKeep, LoopLocals
<1> QED
    BY <1>1, <1>2, <1>3, <1>15, <1>18, OneLoopMoves

\* The stamp of an alert whose hits are all passed, and on to the next alert.
LEMMA StampLoops ==
    ASSUME LoopInv, NEW w \in Workers, Stamp(w)
    PROVE  LoopsOK'
<1> DEFINE a == Head(left[w])
           rest == Tail(left[w])
           rows == candidates[w]
<1>1. /\ InLoop(w) /\ left[w] # << >> /\ ahead[w] = << >>
      /\ assigned' = [assigned EXCEPT ![w] = @ \cup {a}]
      /\ TurnTo(w, rest, rows)
      /\ UNCHANGED << phase, day, found, candidates, triggers, inserted, locked >>
    BY DEF Stamp, vars, evalVars, workerVars
<1>2. EvalInv /\ LoopLocals /\ LoopsOK /\ PositionOK(w) /\ PassedOK(w) /\ StampsOK(w)
    BY <1>1, InItsLoop
<1>3. /\ a \in DOMAIN found[w] /\ a \in Elements(left[w])
      /\ a \notin assigned[w] /\ \A b \in assigned[w] : b < a
    BY <1>1, AtPosition
<1>4. /\ DOMAIN found[w] \in SUBSET Int
      /\ \A b \in DOMAIN found[w] : found[w][b].lookahead_days \in Int
      /\ rows = candidates[w] /\ DOMAIN rows \subseteq Forecasts /\ day[w] \in Int
    BY <1>2, CycleData
<1>5. left[w] \in Seq(DOMAIN found[w]) /\ Ascending(left[w])
    BY <1>2 DEF PositionOK
<1>6. /\ rest \in Seq(DOMAIN found[w]) /\ Ascending(rest)
      /\ \A b \in Elements(rest) : a < b
      /\ Elements(rest) = Elements(left[w]) \ {a}
    BY <1>1, <1>4, <1>5, AscendingTail, ListTail
<1> HIDE DEF rest, rows
<1>7. /\ left' = [v \in Workers |-> left'[v]] /\ ahead' = [v \in Workers |-> ahead'[v]]
      /\ \A v \in Workers \ {w} : left'[v] = left[v] /\ ahead'[v] = ahead[v]
      /\ left'[w] = rest
      /\ rest = << >> => ahead'[w] = << >>
      /\ rest # << >> =>
             /\ LastOf(ahead'[w], found[w][Head(rest)].field_id, rows)
             /\ ahead'[w] # << >> =>
                    /\ Head(ahead'[w]) \in DOMAIN rows
                    /\ Considers(w, Head(rest), Head(ahead'[w]))
                    /\ ForecastMatches(found[w][Head(rest)], rows[Head(ahead'[w])])
             /\ \A f \in DOMAIN rows \ Elements(ahead'[w]) :
                    ~(/\ Considers(w, Head(rest), f)
                      /\ ForecastMatches(found[w][Head(rest)], rows[f]))
    BY <1>1, <1>2, <1>4, <1>6, TurnedTo
<1>8. assigned'[w] = assigned[w] \cup {a}
    BY <1>1, <1>2 DEF LoopLocals
<1>9. \A b, g : Hit(w, b, g)' <=> Hit(w, b, g)
    BY <1>1, SameHits
<1>10. PositionOK(w)'
    <2>1. rest # << >> => Head(rest) \in DOMAIN found[w]
        BY <1>6, HeadTailProperties
    <2>2. assigned'[w] = DOMAIN found[w] \ Elements(rest)
        BY <1>2, <1>3, <1>6, <1>8 DEF PositionOK
    <2>3. \A b \in assigned'[w] : \A c \in Elements(rest) : b < c
        BY <1>2, <1>6, <1>8 DEF PositionOK
    <2>4. rest # << >> /\ ahead'[w] # << >> => Hit(w, Head(rest), Head(ahead'[w]))
        BY <1>4, <1>7, <2>1 DEF Hit
    <2> QED
        BY <1>1, <1>4, <1>6, <1>7, <1>9, <2>2, <2>3, <2>4 DEF PositionOK
<1>11. \A b, g : Passed(w, b, g)' <=> Passed(w, b, g)
    <2>1. Elements(ahead[w]) = {}
        BY <1>1 DEF Elements
    <2> QED
        BY <1>1, <1>3, <1>4, <1>7, <1>8, <1>9, <2>1 DEF Passed, Hit
<1>12. PassedOK(w)'
    BY <1>1, <1>2, <1>11, SamePassed
<1>13. StampsOK(w)'
    <2>1. locked'[w] = locked[w] /\ inserted'[w] = inserted[w]
        BY <1>1
    <2>2. Dirty(w)' = Dirty(w) \cup {a}
        BY <1>2, <1>3, <1>8, <2>1 DEF Dirty, StampsOK
    <2>3. \A b \in locked[w] : b < a
        BY <1>2, <1>3 DEF StampsOK
    <2>4. \A t \in inserted[w] : t.alert_id <= a
        BY <1>2, <1>3, <1>4 DEF PassedOK, Passed, Hit
    <2> QED
        BY <1>2, <1>8, <2>1, <2>2, <2>3, <2>4 DEF StampsOK
<1>14. WorkerOK(w)' /\ OthersKeep(w) /\ LoopLocals'
    BY <1>1, <1>2, <1>7, <1>10, <1>12, <1>13
        DEF WorkerOK, InLoop, OthersKeep, LoopLocals
<1> QED
    BY <1>1, <1>2, <1>14, OneLoopMoves

\* A set of naturals has a smallest element.
LEMMA SmallestOf ==
    ASSUME NEW S \in SUBSET Nat, S # {}
    PROVE  \E a \in S : \A b \in S : a <= b
<1>1. PICK a \in S : \A b \in S : << b, a >> \notin OpToRel(<, Nat)
    BY NatLessThanWellFounded, WFMin, Zenon
<1>2. \A b \in S : ~(b < a)
    BY <1>1 DEF OpToRel
<1> QED
    BY <1>2

\* The next stamp to write is the first of them.
LEMMA FirstStamp ==
    ASSUME EvalInv, NEW w \in Workers, assigned[w] \subseteq DOMAIN found[w], Dirty(w) # {}
    PROVE  FirstDirty(w) \in Dirty(w) /\ \A b \in Dirty(w) : FirstDirty(w) <= b
<1>1. DOMAIN found[w] \subseteq AlertIds /\ AlertIds = 1..Len(alerts) /\ Len(alerts) \in Nat
    BY Locals, Ids DEF InOrder, EvalInv, ApiInv
<1>2. Dirty(w) \in SUBSET Nat
    BY <1>1 DEF Dirty
<1>3. \E a \in Dirty(w) : \A b \in Dirty(w) : a <= b
    BY <1>2, SmallestOf
<1> QED
    BY <1>3 DEF FirstDirty

\* The flush of a stamp: the first of those to write.
LEMMA WriteStampLoops ==
    ASSUME LoopInv, NEW w \in Workers, WriteStamp(w)
    PROVE  LoopsOK'
<1> DEFINE a == FirstDirty(w)
<1>1. /\ InLoop(w) /\ Dirty(w) # {}
      /\ locked' = [locked EXCEPT ![w] = @ \cup {a}]
      /\ UNCHANGED << phase, day, found, candidates, triggers, left, ahead, inserted, assigned >>
    BY DEF WriteStamp, Flushing, Inserting, Committing, vars, evalVars, workerVars
<1>2. EvalInv /\ LoopLocals /\ LoopsOK /\ PositionOK(w) /\ PassedOK(w) /\ StampsOK(w)
    BY <1>1, InItsLoop
<1>3. assigned[w] \subseteq DOMAIN found[w] /\ DOMAIN found[w] \in SUBSET Int
    BY <1>2, CycleData DEF PositionOK
<1>4. a \in Dirty(w) /\ \A b \in Dirty(w) : a <= b
    BY <1>1, <1>2, <1>3, FirstStamp
<1> HIDE DEF a
<1>5. locked'[w] = locked[w] \cup {a} /\ Dirty(w)' = Dirty(w) \ {a}
    BY <1>1, <1>2 DEF LoopLocals, Dirty
<1>6. \A b, g : Hit(w, b, g)' <=> Hit(w, b, g)
    BY <1>1, SameHits
<1>7. PositionOK(w)'
    BY <1>1, <1>2, <1>6 DEF PositionOK
<1>8. PassedOK(w)'
    <2>1. \A b, g : Passed(w, b, g)' <=> Passed(w, b, g)
        BY <1>1, <1>6 DEF Passed
    <2> QED
        BY <1>1, <1>2, <2>1, SamePassed
<1>9. StampsOK(w)'
    <2>1. locked'[w] \subseteq assigned'[w]
        BY <1>1, <1>2, <1>4, <1>5 DEF StampsOK, Dirty
    <2>2. ASSUME NEW b \in Dirty(w) \ {a}
          PROVE  /\ \A c \in locked[w] \cup {a} : c < b
                 /\ \A t \in inserted[w] : t.alert_id <= b
        <3>1. a \in Int /\ b \in Int
            BY <1>3, <1>4 DEF Dirty
        <3> QED
            BY <1>2, <1>4, <3>1 DEF StampsOK
    <2> QED
        BY <1>1, <1>5, <2>1, <2>2 DEF StampsOK
<1>10. WorkerOK(w)' /\ OthersKeep(w) /\ LoopLocals'
    BY <1>1, <1>2, <1>7, <1>8, <1>9 DEF WorkerOK, InLoop, OthersKeep, LoopLocals
<1> QED
    BY <1>1, <1>2, <1>10, OneLoopMoves

\* A session that ends, by its commit or by a fault, holds nothing.
LEMMA EndLoops ==
    ASSUME LoopInv, NEW w \in Workers, EndCycle(w), EndLoop(w),
           triggers \subseteq triggers', triggers' \ triggers \subseteq inserted[w]
    PROVE  LoopsOK'
<1>1. EvalInv /\ LoopLocals /\ LoopsOK
    BY DEF LoopInv, LoopsOK
<1>2. OthersKeep(w) /\ LoopLocals' /\ NoLoop(w)' /\ phase'[w] = "asleep"
    BY <1>1, Locals DEF EndCycle, EndLoop, OthersKeep, LoopLocals, NoLoop
<1>3. WorkerOK(w)' /\ inserted'[w] = {}
    BY <1>2 DEF WorkerOK, InLoop, NoLoop
<1> QED
    BY <1>1, <1>2, <1>3, OneLoopMoves

\* Whatever leaves the cycles and the triggers alone.
LEMMA OtherLoops ==
    ASSUME LoopInv, UNCHANGED << workerVars, triggers, loopVars >>
    PROVE  LoopsOK'
<1>1. LoopLocals /\ KeysDiffer /\ \A w \in Workers : WorkerOK(w)
    BY DEF LoopInv
<1>2. \A w \in Workers : WorkerOK(w)'
    BY <1>1, OtherWorker DEF workerVars, loopVars
<1>3. LoopLocals' /\ KeysDiffer'
    BY <1>1 DEF LoopLocals, KeysDiffer, Key, loopVars
<1> QED
    BY <1>2, <1>3 DEF LoopsOK

-----------------------------------------------------------------------------
(* The loops implement the one step.                                       *)

\* What matches in a cycle are its hits.
LEMMA MatchesAreHits ==
    ASSUME NEW w
    PROVE  \A t : t \in Matches(w) <=> \E a, f : Hit(w, a, f) /\ t = Snapshot(w, a, f)
<1>1. ASSUME NEW t \in Matches(w) PROVE \E a, f : Hit(w, a, f) /\ t = Snapshot(w, a, f)
    BY DEF Matches, Hit, ForecastMatches
<1>2. ASSUME NEW a, NEW f, Hit(w, a, f) PROVE Snapshot(w, a, f) \in Matches(w)
    <2>1. << a, f >> \in (DOMAIN found[w]) \X (DOMAIN candidates[w])
        BY <1>2 DEF Hit
    <2> QED
        BY <1>2, <2>1 DEF Matches, Hit, ForecastMatches
<1> QED
    BY <1>1, <1>2

\* At its commit a cycle has passed everything, so that it has inserted the new
\* triggers and written every stamp.
LEMMA AllPassed ==
    ASSUME LoopInv, NEW w \in Workers, Commit(w)
    PROVE  inserted[w] = NewTriggers(w) /\ locked[w] = DOMAIN found[w]
<1>1. InLoop(w) /\ left[w] = << >> /\ Dirty(w) = {}
    BY DEF Commit, Committing, Flushing
<1>2. PositionOK(w) /\ PassedOK(w) /\ StampsOK(w)
    BY <1>1, InItsLoop
<1>3. assigned[w] = DOMAIN found[w]
    BY <1>1, <1>2 DEF PositionOK, Elements
<1>4. locked[w] = DOMAIN found[w]
    BY <1>1, <1>2, <1>3 DEF StampsOK, Dirty
<1>5. \A a, f : Passed(w, a, f) <=> Hit(w, a, f)
    BY <1>3 DEF Passed, Hit
<1>6. \A a, f : Hit(w, a, f) => Key(Snapshot(w, a, f)) = << a, f >>
    BY DEF Key, Snapshot
<1>7. ASSUME NEW t \in inserted[w] PROVE t \in NewTriggers(w)
    BY <1>2, <1>5, MatchesAreHits DEF PassedOK, NewTriggers
<1>8. ASSUME NEW t \in NewTriggers(w) PROVE t \in inserted[w]
    <2>1. PICK a, f : Hit(w, a, f) /\ t = Snapshot(w, a, f)
        BY MatchesAreHits DEF NewTriggers
    <2>2. ~ \E old \in triggers : Key(old) = << a, f >>
        BY <1>6, <2>1 DEF NewTriggers
    <2> QED
        BY <1>2, <1>5, <2>1, <2>2 DEF PassedOK, Hit
<1> QED
    BY <1>4, <1>7, <1>8

\* So the commit of the loops is that of Evaluation.tla.
LEMMA CommitIsCommitCycle ==
    ASSUME LoopInv, NEW w \in Workers, Commit(w)
    PROVE  CommitCycle(w)
<1>1. inserted[w] = NewTriggers(w) /\ locked[w] = DOMAIN found[w]
    BY AllPassed
<1>2. phase[w] = "insert"
    BY DEF Commit, Committing, InLoop
<1>3. triggers' = Stored(w) /\ deliveries' = deliveries \cup Queued(w)
    BY <1>1 DEF Commit, Stored, Queued
<1>4. /\ alerts' = Stamped(w)
      /\ stamped' = [a \in (DOMAIN stamped) \cup (DOMAIN found[w]) |->
                        IF a \in DOMAIN found[w] THEN Rule(found[w][a]) ELSE stamped[a]]
    BY <1>1 DEF Commit, Stamped
<1> QED
    BY <1>2, <1>3, <1>4 DEF Commit, CommitCycle

\* Every step of the loops is one of Evaluation.tla or changes none of its
\* variables.
LEMMA StepImplements ==
    ASSUME LoopInv, [LoopNext]_loopCycleVars
    PROVE  [Next]_vars
<1>1. ASSUME NEW w \in Workers, Query(w) PROVE Next
    BY <1>1 DEF Query, Next
<1>2. ASSUME NEW w \in Workers, Insert(w) \/ Stamp(w) \/ WriteStamp(w) PROVE UNCHANGED vars
    BY <1>2 DEF Insert, Stamp, WriteStamp
<1>3. ASSUME NEW w \in Workers, Commit(w) PROVE Next
    BY <1>3, CommitIsCommitCycle DEF Next
<1>4. ASSUME NEW w \in Workers, Fail(w) PROVE Next
    BY <1>4 DEF Fail, Next
<1>5. CASE Others
    BY <1>5 DEF Others, Next
<1>6. CASE UNCHANGED loopCycleVars
    BY <1>6 DEF loopCycleVars
<1> QED
    BY <1>1, <1>2, <1>3, <1>4, <1>5, <1>6 DEF LoopNext

\* The invariant is inductive: one step per action.
LEMMA LoopStep == LoopInv /\ [LoopNext]_loopCycleVars => LoopInv'
<1> SUFFICES ASSUME LoopInv, [LoopNext]_loopCycleVars PROVE LoopInv'
    OBVIOUS
<1>1. EvalInv'
    BY StepImplements, EvalStep DEF LoopInv
<1>2. ASSUME NEW w \in Workers, Query(w) PROVE LoopsOK'
    BY <1>2, QueryLoops
<1>3. ASSUME NEW w \in Workers, Insert(w) PROVE LoopsOK'
    BY <1>3, InsertLoops
<1>4. ASSUME NEW w \in Workers, Stamp(w) PROVE LoopsOK'
    BY <1>4, StampLoops
<1>5. ASSUME NEW w \in Workers, WriteStamp(w) PROVE LoopsOK'
    BY <1>5, WriteStampLoops
<1>6. ASSUME NEW w \in Workers, Commit(w) PROVE LoopsOK'
    BY <1>6, EndLoops DEF Commit
<1>7. ASSUME NEW w \in Workers, Fail(w) PROVE LoopsOK'
    BY <1>7, EndLoops DEF Fail, CycleFails
<1>8. ASSUME Others PROVE LoopsOK'
    <2>1. UNCHANGED << workerVars, triggers, loopVars >>
        BY <1>8 DEF Others, evalVars, Ingest, Midnight
    <2> QED
        BY <2>1, OtherLoops DEF workerVars, loopVars
<1>9. ASSUME UNCHANGED loopCycleVars PROVE LoopsOK'
    <2>1. UNCHANGED << workerVars, triggers, loopVars >>
        BY <1>9 DEF loopCycleVars, vars, evalVars
    <2> QED
        BY <2>1, OtherLoops DEF workerVars, loopVars
<1>10. LoopsOK'
    BY <1>2, <1>3, <1>4, <1>5, <1>6, <1>7, <1>8, <1>9 DEF LoopNext
<1> QED
    BY <1>1, <1>10 DEF LoopInv, LoopsOK

\* At first no cycle loops.
LEMMA LoopInitInv == LoopInit => LoopInv
<1> SUFFICES ASSUME LoopInit PROVE LoopInv
    OBVIOUS
<1>1. EvalInv
    BY EvalInitInv DEF LoopInit
<1>2. \A w \in Workers : ~InLoop(w) /\ NoLoop(w)
    BY DEF LoopInit, Init, InLoop, NoLoop
<1>3. LoopLocals /\ KeysDiffer
    BY DEF LoopInit, LoopLocals, KeysDiffer
<1> QED
    BY <1>1, <1>2, <1>3 DEF LoopInv, WorkerOK

\* Where the loops are and what they have done by then, for any number of
\* workers, alerts and forecasts.
THEOREM LoopInvariant == LoopSpec => []LoopInv
<1>1. LoopInit => LoopInv
    BY LoopInitInv
<1>2. LoopInv /\ [LoopNext]_loopCycleVars => LoopInv'
    BY LoopStep
<1> QED
    BY <1>1, <1>2, PTL DEF LoopSpec

\* The statements of a cycle amount to the one step of Evaluation.tla.
THEOREM LoopImplementsEvaluation == LoopSpec => ImplementsEvaluation /\ Spec
<1>1. LoopInit => Init
    BY DEF LoopInit
<1>2. LoopInv /\ [LoopNext]_loopCycleVars => [Next]_vars
    BY StepImplements
<1>3. [Next]_vars => [UNCHANGED vars \/ Next]_vars
    OBVIOUS
<1> QED
    BY <1>1, <1>2, <1>3, LoopInvariant, PTL DEF LoopSpec, ImplementsEvaluation, Spec

-----------------------------------------------------------------------------
(* No circle of cycles that wait.                                          *)

\* The place of a lock in the order of the queries: the triggers of an alert by
\* date, then its stamp, then the next alert.
TriggerPlace(a, f) == << a, 0, ForecastDate[f] >>
StampPlace(a) == << a, 1, 0 >>

Precedes(p, q) ==
    \/ p[1] < q[1]
    \/ p[1] = q[1] /\ p[2] < q[2]
    \/ p[1] = q[1] /\ p[2] = q[2] /\ p[3] < q[3]

\* The place of the lock that a cycle takes next.
NextPlace(w) ==
    IF Flushing(w) THEN StampPlace(FirstDirty(w))
    ELSE TriggerPlace(Head(left[w]), Head(ahead[w]))

\* All that a cycle has locked comes before what it takes next.
LEMMA LockedInOrder ==
    ASSUME LoopInv, NEW v \in Workers, Flushing(v) \/ Inserting(v)
    PROVE  /\ \A a \in locked[v] : Precedes(StampPlace(a), NextPlace(v))
           /\ \A t \in inserted[v] :
                  Precedes(TriggerPlace(t.alert_id, t.weather_forecast_id), NextPlace(v))
<1>1. InLoop(v)
    BY DEF Flushing, Inserting, Committing
<1>2. EvalInv /\ PositionOK(v) /\ PassedOK(v) /\ StampsOK(v)
    BY <1>1, InItsLoop
<1>3. /\ DOMAIN found[v] \in SUBSET Int /\ assigned[v] \subseteq DOMAIN found[v]
      /\ DOMAIN candidates[v] \subseteq Forecasts
    BY <1>2, CycleData DEF PositionOK
<1>4. \A t \in inserted[v] :
          /\ t.alert_id \in DOMAIN found[v] /\ t.weather_forecast_id \in DOMAIN candidates[v]
          /\ ForecastField[t.weather_forecast_id] = found[v][t.alert_id].field_id
          /\ \/ t.alert_id \in assigned[v]
             \/ /\ t.alert_id = Head(left[v])
                /\ t.weather_forecast_id \notin Elements(ahead[v])
    BY <1>2 DEF PassedOK, Passed, Hit, Considers
<1>5. CASE Flushing(v)
    <2>1. FirstDirty(v) \in Dirty(v)
        BY <1>2, <1>3, <1>5, FirstStamp DEF Flushing
    <2>2. NextPlace(v) = StampPlace(FirstDirty(v)) /\ FirstDirty(v) \in Int
        BY <1>3, <1>5, <2>1 DEF NextPlace, Dirty
    <2>3. /\ \A a \in locked[v] : a < FirstDirty(v)
          /\ \A t \in inserted[v] : t.alert_id <= FirstDirty(v)
        BY <1>2, <2>1 DEF StampsOK
    <2> QED
        BY <1>3, <1>4, <2>2, <2>3 DEF Precedes, StampPlace, TriggerPlace
<1>6. CASE ~Flushing(v)
    <2> DEFINE a == Head(left[v])
               f == Head(ahead[v])
    <2>1. NextPlace(v) = TriggerPlace(a, f) /\ ahead[v] # << >>
        BY <1>6 DEF NextPlace, Inserting
    <2>2. /\ left[v] # << >>
          /\ LastOf(ahead[v], found[v][a].field_id, candidates[v])
        BY <1>2, <2>1 DEF PositionOK
    <2>3. a \in DOMAIN found[v] /\ \A b \in assigned[v] : b < a
        BY <1>1, <2>2, AtPosition
    <2>4. f \in Elements(ahead[v])
        BY <2>1, <2>2, ListTail DEF LastOf
    <2>5. \A b \in locked[v] : b < a
        BY <1>2, <2>3 DEF StampsOK
    <2>6. ASSUME NEW t \in inserted[v]
          PROVE  t.alert_id < a \/ /\ t.alert_id = a
                                   /\ ForecastDate[t.weather_forecast_id] < ForecastDate[f]
        BY <1>4, <2>2, <2>3, <2>4 DEF LastOf, OfField
    <2> QED
        BY <2>1, <2>5, <2>6 DEF Precedes, StampPlace, TriggerPlace
<1> QED
    BY <1>5, <1>6

\* A cycle that waits for one that waits is behind it in the order.
LEMMA WaitsInOrder ==
    ASSUME LoopInv, NEW w \in Workers, NEW v \in Workers, WaitsFor(w, v),
           Flushing(v) \/ Inserting(v)
    PROVE  Precedes(NextPlace(w), NextPlace(v))
<1>1. CASE Flushing(w) /\ FirstDirty(w) \in locked[v]
    BY <1>1, LockedInOrder DEF NextPlace
<1>2. CASE /\ Inserting(w) /\ ~Flushing(w)
           /\ \E t \in inserted[v] : Key(t) = Key(NextTrigger(w))
    <2>1. PICK t \in inserted[v] : Key(t) = Key(NextTrigger(w))
        BY <1>2
    <2>2. t.alert_id = Head(left[w]) /\ t.weather_forecast_id = Head(ahead[w])
        BY <2>1 DEF Key, NextTrigger, Snapshot
    <2> QED
        BY <1>2, <2>2, LockedInOrder DEF NextPlace
<1> QED
    BY <1>1, <1>2 DEF WaitsFor

\* Places are triples of integers.
LEMMA PlacesAreTriples ==
    ASSUME LoopInv, NEW w \in Workers, Flushing(w) \/ Inserting(w)
    PROVE  NextPlace(w) \in Int \X Int \X Int
<1>1. InLoop(w)
    BY DEF Flushing, Inserting, Committing
<1>2. EvalInv /\ PositionOK(w)
    BY <1>1, InItsLoop
<1>3. /\ DOMAIN found[w] \in SUBSET Int /\ assigned[w] \subseteq DOMAIN found[w]
      /\ DOMAIN candidates[w] \subseteq Forecasts
    BY <1>2, CycleData DEF PositionOK
<1>4. CASE Flushing(w)
    BY <1>2, <1>3, <1>4, FirstStamp DEF Flushing, Dirty, NextPlace, StampPlace
<1>5. CASE ~Flushing(w)
    <2>1. left[w] # << >> /\ Hit(w, Head(left[w]), Head(ahead[w]))
        BY <1>2, <1>5 DEF PositionOK, Inserting
    <2> QED
        BY <1>3, <1>5, <2>1, EvaluationAssumption DEF Hit, NextPlace, TriggerPlace
<1> QED
    BY <1>4, <1>5

\* The order of the places is one.
LEMMA PlacesOrdered ==
    ASSUME NEW p \in Int \X Int \X Int, NEW q \in Int \X Int \X Int, NEW r \in Int \X Int \X Int
    PROVE  ~Precedes(p, p) /\ (Precedes(p, q) /\ Precedes(q, r) => Precedes(p, r))
BY DEF Precedes

\* Were every cycle of a circle to wait for one of it, none of them would have
\* the fewest of them ahead in the order.
LEMMA NoCircle == LoopInv => CyclesDoNotDeadlock
<1> SUFFICES ASSUME LoopInv, NEW circle \in (SUBSET Workers) \ {{}},
                    \A w \in circle : \E v \in circle : WaitsFor(w, v)
             PROVE  FALSE
    BY DEF CyclesDoNotDeadlock
<1> DEFINE Ahead(w) == {v \in circle : Precedes(NextPlace(w), NextPlace(v))}
<1>1. \A w \in circle : w \in Workers /\ (Flushing(w) \/ Inserting(w))
    BY DEF WaitsFor
<1>2. \A w \in circle : NextPlace(w) \in Int \X Int \X Int
    BY <1>1, PlacesAreTriples
<1>3. IsFiniteSet(circle)
    BY LoopAssumption, FS_Subset
<1>4. {Ahead(w) : w \in circle} \subseteq FiniteSubsetsOf(circle)
    BY <1>3, FS_Subset DEF FiniteSubsetsOf
<1>5. PICK w \in circle :
          \A v \in circle : << Ahead(v), Ahead(w) >> \notin StrictSubsetOrdering(circle)
    <2> DEFINE sets == {Ahead(w) : w \in circle}
    <2>1. sets # {}
        <3>1. PICK w \in circle : TRUE
            OBVIOUS
        <3>2. Ahead(w) \in sets
            OBVIOUS
        <3> QED
            BY <3>2
    <2>2. sets \subseteq FiniteSubsetsOf(circle)
        BY <1>4
    <2> HIDE DEF sets
    <2>3. PICK least \in sets : \A s \in sets : << s, least >> \notin StrictSubsetOrdering(circle)
        BY <2>1, <2>2, FS_StrictSubsetOrderingWellFounded, WFMin
    <2> QED
        BY <2>3 DEF sets
<1>6. PICK v \in circle : WaitsFor(w, v)
    OBVIOUS
<1>7. Precedes(NextPlace(w), NextPlace(v))
    BY <1>1, <1>6, WaitsInOrder
<1>8. v \in Ahead(w) /\ v \notin Ahead(v)
    BY <1>2, <1>7, PlacesOrdered
<1>9. Ahead(v) \subseteq Ahead(w)
    BY <1>2, <1>7, PlacesOrdered
<1>10. << Ahead(v), Ahead(w) >> \in StrictSubsetOrdering(circle)
    BY <1>8, <1>9 DEF StrictSubsetOrdering
<1> QED
    BY <1>5, <1>10

\* Overlapping cycles never wait for each other in a circle, however many they
\* are and whatever alerts each has loaded.
THEOREM NoDeadlockOfCycles == LoopSpec => []CyclesDoNotDeadlock
<1>1. LoopInv => CyclesDoNotDeadlock
    BY NoCircle
<1> QED
    BY <1>1, LoopInvariant, PTL

\* What Evaluation.tla promises the loops keep, statement by statement: no
\* trigger twice, each with its delivery and true of itself, none taken back,
\* and no edit lost.
THEOREM LoopsKeepThePromises ==
    LoopSpec => /\ [](OneTriggerPerForecast /\ EveryTriggerIsQueued /\ SnapshotsAreConsistent)
                /\ TriggersAreKept
                /\ CycleKeepsEdits
BY LoopImplementsEvaluation, NoTriggerTwice, TriggersAreQueued, SnapshotsStayConsistent,
   TriggersStay, EditsAreKept, PTL

=============================================================================
