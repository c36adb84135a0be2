-------------------------- MODULE CreditScoreProofs --------------------------
(***************************************************************************)
(* Theorems about CreditScore, for every set of subjects, every choice of  *)
(* clock steps and credential counts, and every capacity of the history.   *)
(***************************************************************************)
EXTENDS CreditScore, SequenceTheorems, FiniteSetTheorems, TLAPS

(***************************************************************************)
(* The arithmetic.                                                         *)
(***************************************************************************)

\* A tier table that begins at 0 gives every quantity one of its sub-scores.
LEMMA TierInRange ==
  ASSUME NEW table \in Seq(Nat \X SubScores), table # <<>>, table[1][1] = 0,
         NEW n \in Nat
  PROVE  Tier(table, n) \in SubScores
<1> DEFINE reached == {k \in DOMAIN table : table[k][1] <= n}
<1>1. /\ Len(table) \in Nat \ {0}
      /\ DOMAIN table = 1..Len(table)
  BY LenProperties, EmptySeq
<1>2. IsFiniteSet(1..Len(table)) /\ Cardinality(1..Len(table)) = Len(table)
  BY <1>1, FS_Interval
<1>3. reached \subseteq 1..Len(table) /\ 1 \in reached
  BY <1>1
<1>4. IsFiniteSet(reached) /\ Cardinality(reached) <= Len(table)
  BY <1>2, <1>3, FS_Subset
<1>5. Cardinality(reached) \in Nat /\ Cardinality(reached) # 0
  BY <1>3, <1>4, FS_EmptySet, FS_CardinalityType
<1>6. Cardinality(reached) \in 1..Len(table)
  BY <1>1, <1>4, <1>5
<1>7. table[Cardinality(reached)] \in Nat \X SubScores
  BY <1>6, ElementOfSeq
<1> QED
  BY <1>7 DEF Tier

\* The tables of the contract are such tables.
LEMMA TablesTyped ==
  \A table \in {VolumeTable, LongevityTable, DiversityTable, CrossBorderTable,
                CredentialsTable} :
    table \in Seq(Nat \X SubScores) /\ table # <<>> /\ table[1][1] = 0
<1>1. VolumeTable \in Seq(Nat \X SubScores) /\ VolumeTable[1][1] = 0
  BY DEF VolumeTable, SubScores
<1>2. LongevityTable \in Seq(Nat \X SubScores) /\ LongevityTable[1][1] = 0
  BY DEF LongevityTable, SubScores
<1>3. DiversityTable \in Seq(Nat \X SubScores) /\ DiversityTable[1][1] = 0
  BY DEF DiversityTable, SubScores
<1>4. CrossBorderTable \in Seq(Nat \X SubScores) /\ CrossBorderTable[1][1] = 0
  BY DEF CrossBorderTable, SubScores
<1>5. CredentialsTable \in Seq(Nat \X SubScores) /\ CredentialsTable[1][1] = 0
  BY DEF CredentialsTable, SubScores
<1>6. /\ VolumeTable # <<>> /\ LongevityTable # <<>> /\ DiversityTable # <<>>
      /\ CrossBorderTable # <<>> /\ CredentialsTable # <<>>
  BY DEF VolumeTable, LongevityTable, DiversityTable, CrossBorderTable,
         CredentialsTable
<1> QED
  BY <1>1, <1>2, <1>3, <1>4, <1>5, <1>6

\* Whatever the penalties add up to, the payment history sub-score is one.
LEMMA PaymentInRange ==
  ASSUME NEW ph \in PaymentHistory
  PROVE  PaymentSubscore(ph) \in SubScores
<1>1. LatePenalty(ph) \in Int
  BY DEF LatePenalty, PaymentHistory
<1>2. DefaultPenalty(ph) \in Int
  BY DEF DefaultPenalty, Least, PaymentHistory
<1>3. \A n \in Int : Clamp(n, 0, 900) \in SubScores
  BY DEF Clamp, SubScores
<1> QED
  BY <1>1, <1>2, <1>3 DEF PaymentSubscore, SubScores

\* The composite of six sub-scores is between SCORE_MIN and SCORE_MAX even
\* before it is clamped: the clamp of compute_composite never acts.
THEOREM CompositeInRange ==
  ASSUME NEW c \in ScoreComponents
  PROVE  /\ RawComposite(c) \in SubScores
         /\ Composite(c) \in SCORE_MIN..SCORE_MAX
         /\ Composite(c) =
              SCORE_MIN + (RawComposite(c) * (SCORE_MAX - SCORE_MIN)) \div 900
<1> DEFINE sum == c.payment_history * 35 + c.transaction_volume * 20
     + c.account_longevity * 15 + c.asset_diversity * 10
     + c.cross_border_activity * 10 + c.credential_completeness * 10
<1>1. /\ c.payment_history \in Int /\ 0 <= c.payment_history
      /\ c.payment_history <= 900
      /\ c.transaction_volume \in Int /\ 0 <= c.transaction_volume
      /\ c.transaction_volume <= 900
      /\ c.account_longevity \in Int /\ 0 <= c.account_longevity
      /\ c.account_longevity <= 900
      /\ c.asset_diversity \in Int /\ 0 <= c.asset_diversity
      /\ c.asset_diversity <= 900
      /\ c.cross_border_activity \in Int /\ 0 <= c.cross_border_activity
      /\ c.cross_border_activity <= 900
      /\ c.credential_completeness \in Int /\ 0 <= c.credential_completeness
      /\ c.credential_completeness <= 900
  <2>1. /\ c.payment_history \in SubScores /\ c.transaction_volume \in SubScores
        /\ c.account_longevity \in SubScores /\ c.asset_diversity \in SubScores
        /\ c.cross_border_activity \in SubScores
        /\ c.credential_completeness \in SubScores
    BY DEF ScoreComponents
  <2>2. \A n \in SubScores : n \in Int /\ 0 <= n /\ n <= 900
    BY DEF SubScores
  <2> QED
    BY <2>1, <2>2
<1>2. sum \in Int /\ 0 <= sum /\ sum <= 90000
  BY <1>1
<1> HIDE DEF sum
<1>3. sum \div 100 \in Int /\ 0 <= sum \div 100 /\ sum \div 100 <= 900
  BY <1>2
<1>4. RawComposite(c) \in 0..900
  BY <1>3 DEF RawComposite, sum
<1>5. \A n \in 0..900 : 300 + (n * 600) \div 900 \in 300..900
  OBVIOUS
<1>6. 300 + (RawComposite(c) * 600) \div 900 \in 300..900
  BY <1>4, <1>5
<1> QED
  BY <1>4, <1>6 DEF Composite, Clamp, SubScores, SCORE_MIN, SCORE_MAX

(***************************************************************************)
(* What a computation reads and writes.                                    *)
(***************************************************************************)

LEMMA MetricsOfType ==
  ASSUME TypeOK, NEW s \in Subjects
  PROVE  MetricsOf(s) \in SubjectMetrics
BY DEF TypeOK, MetricsOf, SubjectMetrics

LEMMA ComponentsType ==
  ASSUME TypeOK, NEW s \in Subjects, NEW n \in Nat
  PROVE  ComponentsOf(s, n) \in ScoreComponents
<1> DEFINE m == MetricsOf(s)
<1>1. m \in SubjectMetrics
  BY MetricsOfType
<1>2. /\ m.transaction_count \in Nat /\ m.account_created_at \in Nat
      /\ m.distinct_asset_count \in Nat /\ m.cross_border_tx_count \in Nat
  BY <1>1 DEF SubjectMetrics
<1> HIDE DEF m
<1>3. AgeInDays(m.account_created_at, now) \in Nat
  <2>1. now \in Nat
    BY DEF TypeOK
  <2>2. \A d \in Nat : d \div 86400 \in Nat
    OBVIOUS
  <2> QED
    BY <1>2, <2>1, <2>2 DEF AgeInDays, SecondsPerDay
<1>4. PaymentSubscore(summary[s]) \in SubScores
  BY PaymentInRange DEF TypeOK
<1>5. /\ Tier(VolumeTable, m.transaction_count) \in SubScores
      /\ Tier(LongevityTable, AgeInDays(m.account_created_at, now)) \in SubScores
      /\ Tier(DiversityTable, m.distinct_asset_count) \in SubScores
      /\ Tier(CrossBorderTable, m.cross_border_tx_count) \in SubScores
      /\ Tier(CredentialsTable, n) \in SubScores
  <2>1. \A table \in {VolumeTable, LongevityTable, DiversityTable,
                      CrossBorderTable, CredentialsTable}, k \in Nat :
          Tier(table, k) \in SubScores
    BY TablesTyped, TierInRange
  <2> QED
    BY <1>2, <1>3, <2>1
<1> QED
  BY <1>4, <1>5 DEF ComponentsOf, ScoreComponents, m

LEMMA DataPointsType ==
  ASSUME TypeOK, NEW s \in Subjects
  PROVE  DataPoints(s) \in Nat
<1>1. MetricsOf(s) \in SubjectMetrics /\ summary[s] \in PaymentHistory
  BY MetricsOfType DEF TypeOK
<1> QED
  BY <1>1 DEF DataPoints, SubjectMetrics, PaymentHistory

\* All but the last element of r are those of h, d places further on.
MovedBy(d, r, h) ==
  /\ Len(r) = Len(h) + 1 - d
  /\ \A j \in 1..(Len(r) - 1) : j + d \in 1..Len(h) /\ r[j] = h[j + d]

MovedBySome(r, h) == \E d \in {0, 1} : MovedBy(d, r, h)

\* Remembering appends the snapshot at the end, after dropping the oldest one
\* of a full history: the others move by at most one place.
LEMMA RememberProperties ==
  ASSUME NEW S, NEW h \in Seq(S), NEW x \in S, Len(h) <= MaxScoreHistory
  PROVE  /\ Remember(h, x) \in Seq(S)
         /\ Len(Remember(h, x)) \in 1..MaxScoreHistory
         /\ Remember(h, x)[Len(Remember(h, x))] = x
         /\ MovedBySome(Remember(h, x), h)
<1> DEFINE r == Remember(h, x)
<1>1. Len(h) \in Nat /\ MaxScoreHistory \in Nat /\ MaxScoreHistory >= 1
  BY MaxScoreHistoryAssumption, LenProperties
<1>2. CASE Len(h) >= MaxScoreHistory
  <2>1. h # <<>>
    BY <1>1, <1>2, EmptySeq
  <2>2. /\ Tail(h) \in Seq(S)
        /\ Len(Tail(h)) = Len(h) - 1
        /\ \A j \in 1..Len(Tail(h)) : Tail(h)[j] = h[j + 1]
    BY <2>1, HeadTailProperties
  <2>3. r = Append(Tail(h), x)
    BY <1>2 DEF Remember
  <2>4. /\ r \in Seq(S)
        /\ Len(r) = Len(h)
        /\ \A j \in 1..(Len(h) - 1) : r[j] = h[j + 1]
        /\ r[Len(h)] = x
    <3>1. /\ Append(Tail(h), x) \in Seq(S)
          /\ Len(Append(Tail(h), x)) = Len(Tail(h)) + 1
          /\ \A j \in 1..Len(Tail(h)) : Append(Tail(h), x)[j] = Tail(h)[j]
          /\ Append(Tail(h), x)[Len(Tail(h)) + 1] = x
      BY <2>2, AppendProperties
    <3> QED
      BY <1>1, <2>2, <2>3, <3>1
  <2> HIDE DEF r
  <2>5. \A j \in 1..(Len(r) - 1) : j + 1 \in 1..Len(h) /\ r[j] = h[j + 1]
    BY <1>1, <2>4
  <2>6. Len(r) = Len(h) + 1 - 1 /\ Len(r) \in 1..MaxScoreHistory
        /\ r[Len(r)] = x
    BY <1>1, <1>2, <2>4
  <2>7. MovedBySome(r, h)
    BY <2>5, <2>6 DEF MovedBySome, MovedBy
  <2> QED
    BY <2>4, <2>6, <2>7 DEF r
<1>3. CASE Len(h) < MaxScoreHistory
  <2>1. r = Append(h, x)
    BY <1>1, <1>3 DEF Remember
  <2>2. /\ r \in Seq(S)
        /\ Len(r) = Len(h) + 1
        /\ \A j \in 1..Len(h) : r[j] = h[j]
        /\ r[Len(h) + 1] = x
    BY <2>1, AppendProperties
  <2> HIDE DEF r
  <2>3. \A j \in 1..(Len(r) - 1) : j + 0 \in 1..Len(h) /\ r[j] = h[j + 0]
    BY <1>1, <2>2
  <2>4. Len(r) = Len(h) + 1 - 0 /\ Len(r) \in 1..MaxScoreHistory
        /\ r[Len(r)] = x
    BY <1>1, <1>3, <2>2
  <2>5. MovedBySome(r, h)
    BY <2>3, <2>4 DEF MovedBySome, MovedBy
  <2> QED
    BY <2>2, <2>4, <2>5 DEF r
<1> QED
  BY <1>1, <1>2, <1>3

(***************************************************************************)
(* Type correctness, together with the bound on the history.               *)
(***************************************************************************)

HistoryBounded == \A s \in Subjects : Len(history[s]) <= MaxScoreHistory

\* The record compute_score stores and the snapshot it appends.
LEMMA ComputedScore ==
  ASSUME TypeOK, NEW s \in Subjects, NEW n \in CredentialCounts,
         ComputeScore(s, n)
  PROVE  \E rec \in CreditScoreRecord, snap \in ScoreSnapshot :
           /\ snap = [score |-> rec.score, components |-> rec.components,
                      snapshot_at |-> rec.last_updated]
           /\ rec.last_updated = now
           /\ score' = [score EXCEPT ![s] = rec]
           /\ history' = [history EXCEPT ![s] = Remember(history[s], snap)]
<1> DEFINE components == ComponentsOf(s, n)
           composite == Composite(components)
           rec == [score |-> composite, components |-> components,
                   last_updated |-> now, data_points |-> DataPoints(s)]
           snap == [score |-> composite, components |-> components,
                    snapshot_at |-> now]
<1>1. n \in Nat /\ now \in Nat
  BY InputsAssumption DEF TypeOK
<1>2. components \in ScoreComponents
  BY <1>1, ComponentsType
<1>3. composite \in SCORE_MIN..SCORE_MAX
  BY <1>2, CompositeInRange
<1>4. DataPoints(s) \in Nat
  BY DataPointsType
<1>5. /\ score' = [score EXCEPT ![s] = rec]
      /\ history' = [history EXCEPT ![s] = Remember(history[s], snap)]
  BY DEF ComputeScore
<1> HIDE DEF components, composite
<1>6. rec \in CreditScoreRecord /\ snap \in ScoreSnapshot
  BY <1>1, <1>2, <1>3, <1>4 DEF CreditScoreRecord, ScoreSnapshot
<1>7. /\ snap = [score |-> rec.score, components |-> rec.components,
                 snapshot_at |-> rec.last_updated]
      /\ rec.last_updated = now
  OBVIOUS
<1> QED
  BY <1>5, <1>6, <1>7

\* Metrics with one of their counters set to a number.
LEMMA MetricsField ==
  ASSUME NEW m \in SubjectMetrics, NEW n \in Nat
  PROVE  /\ [m EXCEPT !.transaction_count = n] \in SubjectMetrics
         /\ [m EXCEPT !.distinct_asset_count = n] \in SubjectMetrics
         /\ [m EXCEPT !.cross_border_tx_count = n] \in SubjectMetrics
         /\ [m EXCEPT !.cross_border_corridors = n] \in SubjectMetrics
BY DEF SubjectMetrics

\* The metrics record_transaction stores: one more transaction, and the other
\* counters grow as its arguments say.
LEMMA RecordedMetrics ==
  ASSUME TypeOK, NEW s \in Subjects, NEW a \in BOOLEAN, NEW b \in BOOLEAN,
         NEW c \in BOOLEAN, RecordTransaction(s, a, b, c)
  PROVE  \E r \in SubjectMetrics :
           /\ metrics' = [metrics EXCEPT ![s] = r]
           /\ r.transaction_count = MetricsOf(s).transaction_count + 1
           /\ r.account_created_at = MetricsOf(s).account_created_at
           /\ r.distinct_asset_count =
                IF a THEN MetricsOf(s).distinct_asset_count + 1
                ELSE MetricsOf(s).distinct_asset_count
           /\ r.cross_border_tx_count =
                IF b THEN MetricsOf(s).cross_border_tx_count + 1
                ELSE MetricsOf(s).cross_border_tx_count
           /\ r.cross_border_corridors =
                IF b /\ c THEN MetricsOf(s).cross_border_corridors + 1
                ELSE MetricsOf(s).cross_border_corridors
<1> DEFINE m == MetricsOf(s)
           assets == IF a THEN m.distinct_asset_count + 1
                     ELSE m.distinct_asset_count
           crossings == IF b THEN m.cross_border_tx_count + 1
                        ELSE m.cross_border_tx_count
           corridors == IF b /\ c THEN m.cross_border_corridors + 1
                        ELSE m.cross_border_corridors
<1>1. m \in SubjectMetrics
  BY MetricsOfType
<1>2. PICK r : /\ metrics' = [metrics EXCEPT ![s] = r]
               /\ r = [m EXCEPT !.transaction_count = m.transaction_count + 1,
                         !.distinct_asset_count = assets,
                         !.cross_border_tx_count = crossings,
                         !.cross_border_corridors = corridors]
  BY DEF RecordTransaction
<1> HIDE DEF m
<1>3. /\ m.transaction_count + 1 \in Nat
      /\ assets \in Nat /\ crossings \in Nat /\ corridors \in Nat
  BY <1>1 DEF SubjectMetrics
<1>4. /\ r.transaction_count = m.transaction_count + 1
      /\ r.account_created_at = m.account_created_at
      /\ r.distinct_asset_count = assets
      /\ r.cross_border_tx_count = crossings
      /\ r.cross_border_corridors = corridors
      /\ r \in SubjectMetrics
  <2> DEFINE transactions == m.transaction_count + 1
  <2>1. /\ r = [m EXCEPT !.transaction_count = transactions,
                 !.distinct_asset_count = assets,
                 !.cross_border_tx_count = crossings,
                 !.cross_border_corridors = corridors]
        /\ transactions \in Nat
    BY <1>2, <1>3
  <2> HIDE DEF assets, crossings, corridors, transactions
  <2> DEFINE r1 == [m EXCEPT !.transaction_count = transactions]
             r2 == [r1 EXCEPT !.distinct_asset_count = assets]
             r3 == [r2 EXCEPT !.cross_border_tx_count = crossings]
             r4 == [r3 EXCEPT !.cross_border_corridors = corridors]
  <2>2. r = r4
    BY <2>1
  <2>3. /\ r.transaction_count = transactions
        /\ r.account_created_at = m.account_created_at
        /\ r.distinct_asset_count = assets
        /\ r.cross_border_tx_count = crossings
        /\ r.cross_border_corridors = corridors
    BY <1>1, <2>1 DEF SubjectMetrics
  <2>4. r1 \in SubjectMetrics
    BY <1>1, <2>1, MetricsField
  <2> HIDE DEF r1
  <2>5. r2 \in SubjectMetrics
    BY <1>3, <2>4, MetricsField
  <2> HIDE DEF r2
  <2>6. r3 \in SubjectMetrics
    BY <1>3, <2>5, MetricsField
  <2> HIDE DEF r3
  <2>7. r4 \in SubjectMetrics
    BY <1>3, <2>6, MetricsField
  <2> QED
    BY <2>2, <2>3, <2>7 DEF transactions
<1> QED
  BY <1>2, <1>4 DEF m

\* A summary with one of its fields set to a number is a summary.
LEMMA SummaryField ==
  ASSUME NEW ph \in PaymentHistory, NEW n \in Nat
  PROVE  /\ [ph EXCEPT !.total_repayments = n] \in PaymentHistory
         /\ [ph EXCEPT !.on_time_repayments = n] \in PaymentHistory
         /\ [ph EXCEPT !.late_repayments = n] \in PaymentHistory
         /\ [ph EXCEPT !.total_defaults = n] \in PaymentHistory
         /\ [ph EXCEPT !.last_on_time_at = n] \in PaymentHistory
         /\ [ph EXCEPT !.last_default_at = n] \in PaymentHistory
BY DEF PaymentHistory

\* The summaries the record operations store.
LEMMA RecordedSummary ==
  ASSUME TypeOK, NEW s \in Subjects, NEW ph \in PaymentHistory,
         summary' = [summary EXCEPT ![s] = ph]
  PROVE  summary' \in [Subjects -> PaymentHistory]
BY DEF TypeOK

LEMMA RepaidSummary ==
  ASSUME TypeOK, NEW s \in Subjects, NEW on_time \in BOOLEAN,
         RecordRepayment(s, on_time)
  PROVE  summary' \in [Subjects -> PaymentHistory]
<1> DEFINE ph == summary[s]
           counted == [ph EXCEPT !.total_repayments = ph.total_repayments + 1]
           kept == [counted EXCEPT
                      !.on_time_repayments = ph.on_time_repayments + 1]
           paid == [kept EXCEPT !.last_on_time_at = now]
           late == [counted EXCEPT !.late_repayments = ph.late_repayments + 1]
<1>1. ph \in PaymentHistory /\ now \in Nat
  BY DEF TypeOK
<1>2. /\ ph.total_repayments + 1 \in Nat
      /\ ph.on_time_repayments + 1 \in Nat
      /\ ph.late_repayments + 1 \in Nat
  BY <1>1 DEF PaymentHistory
<1>3. on_time => summary' = [summary EXCEPT ![s] = paid]
  BY <1>1 DEF RecordRepayment, PaymentHistory
<1>4. ~on_time => summary' = [summary EXCEPT ![s] = late]
  BY <1>1 DEF RecordRepayment, PaymentHistory
<1> HIDE DEF ph
<1>5. counted \in PaymentHistory
  BY <1>1, <1>2, SummaryField
<1> HIDE DEF counted
<1>6. kept \in PaymentHistory /\ late \in PaymentHistory
  BY <1>2, <1>5, SummaryField
<1> HIDE DEF kept
<1>7. paid \in PaymentHistory
  BY <1>1, <1>6, SummaryField
<1> QED
  BY <1>3, <1>4, <1>6, <1>7, RecordedSummary

LEMMA DefaultedSummary ==
  ASSUME TypeOK, NEW s \in Subjects, RecordDefault(s)
  PROVE  summary' \in [Subjects -> PaymentHistory]
<1> DEFINE ph == summary[s]
           counted == [ph EXCEPT !.total_defaults = ph.total_defaults + 1]
           failed == [counted EXCEPT !.last_default_at = now]
<1>1. ph \in PaymentHistory /\ now \in Nat
  BY DEF TypeOK
<1>2. ph.total_defaults + 1 \in Nat
  BY <1>1 DEF PaymentHistory
<1>3. summary' = [summary EXCEPT ![s] = failed]
  BY <1>1 DEF RecordDefault, PaymentHistory
<1> HIDE DEF ph
<1>4. counted \in PaymentHistory
  BY <1>1, <1>2, SummaryField
<1> HIDE DEF counted
<1>5. failed \in PaymentHistory
  BY <1>1, <1>4, SummaryField
<1> QED
  BY <1>3, <1>5, RecordedSummary

LEMMA InitType == Init => TypeOK /\ HistoryBounded
<1> SUFFICES ASSUME Init
             PROVE  TypeOK /\ HistoryBounded
  OBVIOUS
<1>1. now \in Nat
  BY InputsAssumption DEF Init
<1>2. EmptyHistory \in PaymentHistory
  BY DEF EmptyHistory, PaymentHistory
<1>3. /\ <<>> \in Seq(RepaymentEvent) /\ <<>> \in Seq(DefaultEvent)
      /\ <<>> \in Seq(ScoreSnapshot) /\ Len(<<>>) = 0
  BY EmptySeq
<1>4. TypeOK
  BY <1>1, <1>2, <1>3 DEF Init, TypeOK
<1>5. HistoryBounded
  BY <1>3, MaxScoreHistoryAssumption DEF Init, HistoryBounded
<1> QED
  BY <1>4, <1>5

LEMMA NextType == TypeOK /\ HistoryBounded /\ [Next]_vars
                    => (TypeOK /\ HistoryBounded)'
<1> SUFFICES ASSUME TypeOK, HistoryBounded, [Next]_vars
             PROVE  (TypeOK /\ HistoryBounded)'
  OBVIOUS
<1> USE DEF HistoryBounded
<1>1. ASSUME NEW d \in TimeSteps, Tick(d)
      PROVE  (TypeOK /\ HistoryBounded)'
  BY <1>1, InputsAssumption DEF TypeOK, Tick, paymentVars, scoreVars
<1>2. ASSUME NEW s \in Subjects, NEW on_time \in BOOLEAN,
             RecordRepayment(s, on_time)
      PROVE  (TypeOK /\ HistoryBounded)'
  <2> DEFINE e == [on_time |-> on_time, recorded_at |-> now]
  <2>1. e \in RepaymentEvent
    BY DEF TypeOK, RepaymentEvent
  <2>2. Append(repayments[s], e) \in Seq(RepaymentEvent)
    BY <2>1, AppendProperties DEF TypeOK
  <2>3. repayments' = [repayments EXCEPT ![s] = Append(repayments[s], e)]
    BY <1>2 DEF RecordRepayment
  <2>4. repayments' \in [Subjects -> Seq(RepaymentEvent)]
    BY <2>2, <2>3 DEF TypeOK
  <2>5. summary' \in [Subjects -> PaymentHistory]
    BY <1>2, RepaidSummary
  <2> QED
    BY <1>2, <2>4, <2>5 DEF TypeOK, RecordRepayment, scoreVars
<1>3. ASSUME NEW s \in Subjects, RecordDefault(s)
      PROVE  (TypeOK /\ HistoryBounded)'
  <2> DEFINE e == [recorded_at |-> now]
  <2>1. e \in DefaultEvent
    BY DEF TypeOK, DefaultEvent
  <2>2. Append(defaults[s], e) \in Seq(DefaultEvent)
    BY <2>1, AppendProperties DEF TypeOK
  <2>3. defaults' = [defaults EXCEPT ![s] = Append(defaults[s], e)]
    BY <1>3 DEF RecordDefault
  <2>4. defaults' \in [Subjects -> Seq(DefaultEvent)]
    BY <2>2, <2>3 DEF TypeOK
  <2>5. summary' \in [Subjects -> PaymentHistory]
    BY <1>3, DefaultedSummary
  <2> QED
    BY <1>3, <2>4, <2>5 DEF TypeOK, RecordDefault, scoreVars
<1>4. ASSUME NEW s \in Subjects, NEW a \in BOOLEAN, NEW b \in BOOLEAN,
             NEW c \in BOOLEAN, RecordTransaction(s, a, b, c)
      PROVE  (TypeOK /\ HistoryBounded)'
  <2>1. PICK r \in SubjectMetrics : metrics' = [metrics EXCEPT ![s] = r]
    BY <1>4, RecordedMetrics
  <2>2. metrics' \in [Subjects -> SubjectMetrics \cup {NoMetrics}]
    BY <2>1 DEF TypeOK
  <2> QED
    BY <1>4, <2>2 DEF TypeOK, RecordTransaction, paymentVars, scoreVars
<1>5. ASSUME NEW s \in Subjects, NEW n \in CredentialCounts, ComputeScore(s, n)
      PROVE  (TypeOK /\ HistoryBounded)'
  <2>1. PICK rec \in CreditScoreRecord, snap \in ScoreSnapshot :
          /\ score' = [score EXCEPT ![s] = rec]
          /\ history' = [history EXCEPT ![s] = Remember(history[s], snap)]
    BY <1>5, ComputedScore
  <2>2. /\ Remember(history[s], snap) \in Seq(ScoreSnapshot)
        /\ Len(Remember(history[s], snap)) <= MaxScoreHistory
    BY RememberProperties DEF TypeOK
  <2>3. score' \in [Subjects -> CreditScoreRecord \cup {NoScore}]
    BY <2>1 DEF TypeOK
  <2>4. history' \in [Subjects -> Seq(ScoreSnapshot)]
    BY <2>1, <2>2 DEF TypeOK
  <2>5. HistoryBounded'
    BY <2>1, <2>2 DEF TypeOK
  <2> QED
    BY <1>5, <2>3, <2>4, <2>5 DEF TypeOK, ComputeScore, paymentVars
<1>6. CASE UNCHANGED vars
  BY <1>6 DEF TypeOK, vars, paymentVars, scoreVars
<1> QED
  BY <1>1, <1>2, <1>3, <1>4, <1>5, <1>6 DEF Next

\* Every reachable state is well typed: in particular every stored score is
\* between SCORE_MIN and SCORE_MAX and every component between 0 and 900.
THEOREM TypeCorrect == Spec => []TypeOK
<1>1. TypeOK /\ HistoryBounded /\ [Next]_vars => (TypeOK /\ HistoryBounded)'
  BY NextType
<1> QED
  BY InitType, <1>1, PTL DEF Spec

(***************************************************************************)
(* The history.                                                            *)
(***************************************************************************)

LEMMA InitHistory == Init => ScoreIsLastSnapshot /\ HistoryOrdered
<1> SUFFICES ASSUME Init
             PROVE  ScoreIsLastSnapshot /\ HistoryOrdered
  OBVIOUS
<1>1. \A s \in Subjects : history[s] = <<>> /\ score[s] = NoScore
  BY DEF Init
<1>2. Len(<<>>) = 0 /\ DOMAIN <<>> = {}
  OBVIOUS
<1> QED
  BY <1>1, <1>2, MaxScoreHistoryAssumption
     DEF ScoreIsLastSnapshot, HistoryOrdered

\* The history stays in order when a snapshot of the present is appended,
\* whether or not the oldest one is dropped.
LEMMA ComputeHistory ==
  ASSUME TypeOK, ScoreIsLastSnapshot, HistoryOrdered,
         NEW s \in Subjects, NEW n \in CredentialCounts, ComputeScore(s, n)
  PROVE  (ScoreIsLastSnapshot /\ HistoryOrdered)'
<1>1. PICK rec \in CreditScoreRecord, snap \in ScoreSnapshot :
        /\ snap = [score |-> rec.score, components |-> rec.components,
                   snapshot_at |-> rec.last_updated]
        /\ rec.last_updated = now
        /\ score' = [score EXCEPT ![s] = rec]
        /\ history' = [history EXCEPT ![s] = Remember(history[s], snap)]
  BY ComputedScore
<1> DEFINE h == history[s]
           r == Remember(h, snap)
<1>2. h \in Seq(ScoreSnapshot) /\ Len(h) <= MaxScoreHistory /\ Len(h) \in Nat
  BY LenProperties DEF TypeOK, HistoryOrdered
<1>3. /\ r \in Seq(ScoreSnapshot)
      /\ Len(r) \in 1..MaxScoreHistory
      /\ r[Len(r)] = snap
      /\ MovedBySome(r, h)
  <2> HIDE DEF h
  <2> QED
    BY <1>2, RememberProperties
<1>4. PICK d \in {0, 1} : /\ Len(r) = Len(h) + 1 - d
                          /\ \A j \in 1..(Len(r) - 1) :
                               j + d \in 1..Len(h) /\ r[j] = h[j + d]
  <2> HIDE DEF h, r
  <2> QED
    BY <1>3 DEF MovedBySome, MovedBy
<1>5. now \in Nat /\ now' = now
  BY DEF TypeOK, ComputeScore
<1>6. /\ history'[s] = r /\ score'[s] = rec
      /\ \A x \in Subjects \ {s} : /\ history'[x] = history[x]
                                   /\ score'[x] = score[x]
  BY <1>1 DEF TypeOK
<1>7. rec # NoScore /\ r # <<>>
  BY <1>3, AbsentAssumption
<1>8. ScoreIsLastSnapshot'
  <2>1. /\ score'[s] # NoScore /\ history'[s] # <<>>
        /\ history'[s][Len(history'[s])] =
             [score |-> score'[s].score, components |-> score'[s].components,
              snapshot_at |-> score'[s].last_updated]
    BY <1>1, <1>3, <1>6, <1>7
  <2>2. ASSUME NEW x \in Subjects \ {s}
        PROVE  /\ score'[x] = NoScore <=> history'[x] = <<>>
               /\ score'[x] # NoScore =>
                    history'[x][Len(history'[x])] =
                      [score |-> score'[x].score,
                       components |-> score'[x].components,
                       snapshot_at |-> score'[x].last_updated]
    BY <1>6 DEF ScoreIsLastSnapshot
  <2> QED
    BY <2>1, <2>2 DEF ScoreIsLastSnapshot
<1>9. HistoryOrdered'
  <2>1. snap.snapshot_at = now
    BY <1>1
  <2>2. \A k \in 1..Len(h) :
          /\ h[k].snapshot_at \in Nat /\ h[k].snapshot_at <= now
          /\ \A j \in 1..k : h[j].snapshot_at <= h[k].snapshot_at
    <3>1. DOMAIN h = 1..Len(h)
      BY <1>2, LenProperties
    <3>2. \A k \in 1..Len(h) : h[k] \in ScoreSnapshot
      BY <1>2, ElementOfSeq
    <3>3. \A k \in 1..Len(h) : h[k].snapshot_at \in Nat
      BY <3>2 DEF ScoreSnapshot
    <3> QED
      BY <3>1, <3>3 DEF HistoryOrdered
  <2> HIDE DEF h, r
  <2>3. ASSUME NEW k \in 1..Len(r)
        PROVE  /\ r[k].snapshot_at <= now
               /\ \A j \in 1..k : r[j].snapshot_at <= r[k].snapshot_at
    <3>1. CASE k = Len(r)
      <4>1. r[k].snapshot_at = now
        BY <1>3, <2>1, <3>1
      <4>2. ASSUME NEW j \in 1..k
            PROVE  r[j].snapshot_at <= now
        <5>1. CASE j = Len(r)
          BY <1>5, <3>1, <4>1, <5>1
        <5>2. CASE j # Len(r)
          <6>1. j \in 1..(Len(r) - 1)
            BY <1>3, <3>1, <5>2
          <6>2. j + d \in 1..Len(h) /\ r[j] = h[j + d]
            BY <1>4, <6>1
          <6> QED
            BY <2>2, <6>2
        <5> QED
          BY <5>1, <5>2
      <4> QED
        BY <1>5, <4>1, <4>2
    <3>2. CASE k # Len(r)
      <4>1. k \in 1..(Len(r) - 1)
        BY <1>3, <3>2
      <4>2. k + d \in 1..Len(h) /\ r[k] = h[k + d]
        BY <1>4, <4>1
      <4>3. ASSUME NEW j \in 1..k
            PROVE  r[j].snapshot_at <= r[k].snapshot_at
        <5>1. j \in 1..(Len(r) - 1) /\ j + d \in 1..(k + d)
          BY <1>3, <4>1
        <5>2. r[j] = h[j + d]
          BY <1>4, <5>1
        <5> QED
          BY <2>2, <4>2, <5>1, <5>2
      <4> QED
        BY <2>2, <4>2, <4>3
    <3> QED
      BY <3>1, <3>2
  <2>4. DOMAIN r = 1..Len(r) /\ Len(r) <= MaxScoreHistory
    BY <1>3, LenProperties, MaxScoreHistoryAssumption
  <2>5. history'[s] = r
    BY <1>6 DEF r, h
  <2> QED
    BY <1>5, <1>6, <2>3, <2>4, <2>5 DEF HistoryOrdered
<1> QED
  BY <1>8, <1>9

LEMMA NextHistory ==
  TypeOK /\ ScoreIsLastSnapshot /\ HistoryOrdered /\ [Next]_vars
    => (ScoreIsLastSnapshot /\ HistoryOrdered)'
<1> SUFFICES ASSUME TypeOK, ScoreIsLastSnapshot, HistoryOrdered, [Next]_vars
             PROVE  (ScoreIsLastSnapshot /\ HistoryOrdered)'
  OBVIOUS
<1>1. ASSUME NEW s \in Subjects, NEW n \in CredentialCounts, ComputeScore(s, n)
      PROVE  (ScoreIsLastSnapshot /\ HistoryOrdered)'
  BY <1>1, ComputeHistory
<1>2. ASSUME UNCHANGED scoreVars, now' \in Nat, now <= now'
      PROVE  (ScoreIsLastSnapshot /\ HistoryOrdered)'
  <2>1. score' = score /\ history' = history
    BY <1>2 DEF scoreVars
  <2>2. ASSUME NEW s \in Subjects, NEW k \in DOMAIN history[s]
        PROVE  history[s][k].snapshot_at <= now'
    <3>1. history[s] \in Seq(ScoreSnapshot) /\ now \in Nat
      BY DEF TypeOK
    <3>2. k \in 1..Len(history[s])
      BY <3>1, LenProperties
    <3>3. history[s][k] \in ScoreSnapshot
      BY <3>1, <3>2, ElementOfSeq
    <3>4. history[s][k].snapshot_at \in Nat
      BY <3>3 DEF ScoreSnapshot
    <3>5. history[s][k].snapshot_at <= now
      BY DEF HistoryOrdered
    <3> QED
      BY <1>2, <3>1, <3>4, <3>5
  <2> QED
    BY <2>1, <2>2 DEF ScoreIsLastSnapshot, HistoryOrdered
<1>3. ASSUME NEW e \in TimeSteps, Tick(e)
      PROVE  UNCHANGED scoreVars /\ now' \in Nat /\ now <= now'
  BY <1>3, InputsAssumption DEF Tick, TypeOK
<1>4. ASSUME NEW s \in Subjects, NEW on_time \in BOOLEAN,
             RecordRepayment(s, on_time)
      PROVE  UNCHANGED scoreVars /\ now' \in Nat /\ now <= now'
  BY <1>4 DEF RecordRepayment, TypeOK
<1>5. ASSUME NEW s \in Subjects, RecordDefault(s)
      PROVE  UNCHANGED scoreVars /\ now' \in Nat /\ now <= now'
  BY <1>5 DEF RecordDefault, TypeOK
<1>6. ASSUME NEW s \in Subjects, NEW a \in BOOLEAN, NEW b \in BOOLEAN,
             NEW c \in BOOLEAN, RecordTransaction(s, a, b, c)
      PROVE  UNCHANGED scoreVars /\ now' \in Nat /\ now <= now'
  BY <1>6 DEF RecordTransaction, TypeOK
<1>7. CASE UNCHANGED vars
  BY <1>2, <1>7 DEF vars, TypeOK
<1> QED
  BY <1>1, <1>2, <1>3, <1>4, <1>5, <1>6, <1>7 DEF Next

\* The stored score is always the newest snapshot of the history, for every
\* capacity of the history.
THEOREM ScoreKept == Spec => []ScoreIsLastSnapshot
<1>1. TypeOK /\ HistoryBounded /\ [Next]_vars => (TypeOK /\ HistoryBounded)'
  BY NextType
<1> QED
  BY InitType, <1>1, InitHistory, NextHistory, PTL DEF Spec

\* The history is bounded and chronological, for every capacity.
THEOREM HistoryKept == Spec => []HistoryOrdered
<1>1. TypeOK /\ HistoryBounded /\ [Next]_vars => (TypeOK /\ HistoryBounded)'
  BY NextType
<1> QED
  BY InitType, <1>1, InitHistory, NextHistory, PTL DEF Spec

\* get_score_history agrees with the history and with get_score.
LEMMA QueriesAgree == TypeOK /\ ScoreIsLastSnapshot => HistoryQueriesAgree
<1> SUFFICES ASSUME TypeOK, ScoreIsLastSnapshot,
                    NEW s \in Subjects, NEW limit \in 0..(MaxScoreHistory + 1)
             PROVE  LET answer == ScoreHistory(s, limit) IN
                    /\ Len(answer) = Least(limit, Len(history[s]))
                    /\ \A k \in DOMAIN answer :
                         answer[k] =
                           history[s][Len(history[s]) - Len(answer) + k]
                    /\ answer # <<>> =>
                         /\ score[s] # NoScore
                         /\ answer[Len(answer)].score = score[s].score
  BY DEF HistoryQueriesAgree
<1> DEFINE h == history[s]
           total == Len(h)
           start == IF total > limit THEN total - limit ELSE 0
           answer == ScoreHistory(s, limit)
<1>1. h \in Seq(ScoreSnapshot) /\ total \in Nat /\ limit \in Nat
  BY LenProperties, MaxScoreHistoryAssumption DEF TypeOK
<1>2. /\ limit = 0 => answer = <<>>
      /\ limit # 0 => answer = SubSeq(h, start + 1, total)
  BY DEF ScoreHistory
<1>3. /\ h = <<>> => score[s] = NoScore
      /\ h # <<>> => /\ score[s] # NoScore
                     /\ h[total].score = score[s].score
  <2>1. score[s] = NoScore <=> h = <<>>
    BY DEF ScoreIsLastSnapshot
  <2>2. score[s] # NoScore =>
          h[total] = [score |-> score[s].score,
                      components |-> score[s].components,
                      snapshot_at |-> score[s].last_updated]
    BY DEF ScoreIsLastSnapshot
  <2> QED
    BY <2>1, <2>2
<1> HIDE DEF h, answer
<1>4. /\ Len(answer) = Least(limit, total)
      /\ \A k \in 1..Len(answer) : answer[k] = h[total - Len(answer) + k]
      /\ answer \in Seq(ScoreSnapshot)
  <2>1. CASE limit = 0
    BY <1>1, <1>2, <2>1, EmptySeq DEF Least
  <2>2. CASE limit # 0
    <3>1. /\ start \in Nat /\ start <= total
          /\ total - start = Least(limit, total)
      <4> HIDE DEF total
      <4>1. CASE total > limit
        BY <1>1, <4>1 DEF Least
      <4>2. CASE ~(total > limit)
        <5>1. start = 0 /\ total <= limit
          BY <1>1, <4>2
        <5>2. Least(limit, total) = total
          BY <1>1, <5>1 DEF Least
        <5> QED
          BY <1>1, <5>1, <5>2
      <4> QED
        BY <4>1, <4>2
    <3>2. answer = SubSeq(h, start + 1, total)
      BY <1>2, <2>2
    <3> HIDE DEF start, total
    <3>3. /\ SubSeq(h, start + 1, total) \in Seq(ScoreSnapshot)
          /\ Len(SubSeq(h, start + 1, total)) =
               IF start + 1 <= total THEN total - (start + 1) + 1 ELSE 0
          /\ \A k \in 1..(total - (start + 1) + 1) :
               SubSeq(h, start + 1, total)[k] = h[start + 1 + k - 1]
      <4>1. /\ start + 1 \in 1..(total + 1)
            /\ total \in start..total
        BY <1>1, <3>1
      <4> QED
        BY <1>1, <3>1, <4>1, SubSeqProperties DEF total
    <3>4. Len(answer) = total - start
      BY <1>1, <3>1, <3>2, <3>3
    <3>5. \A k \in 1..Len(answer) : answer[k] = h[total - Len(answer) + k]
      BY <1>1, <3>1, <3>2, <3>3, <3>4
    <3> QED
      BY <3>1, <3>2, <3>3, <3>4, <3>5 DEF total
  <2> QED
    BY <2>1, <2>2
<1>5. DOMAIN answer = 1..Len(answer)
  BY <1>4, LenProperties
<1>6. answer # <<>> => /\ score[s] # NoScore
                       /\ answer[Len(answer)].score = score[s].score
  <2> SUFFICES ASSUME answer # <<>>
               PROVE  /\ score[s] # NoScore
                      /\ answer[Len(answer)].score = score[s].score
    OBVIOUS
  <2>1. Len(answer) \in Nat \ {0}
    BY <1>4, EmptySeq, LenProperties
  <2>2. total # 0
    BY <1>1, <1>4, <2>1 DEF Least
  <2>3. h # <<>>
    BY <2>2
  <2>4. answer[Len(answer)] = h[total]
    BY <1>1, <1>4, <2>1
  <2> QED
    BY <1>3, <2>3, <2>4
<1> QED
  BY <1>4, <1>5, <1>6 DEF h, answer

\* Every query of the history agrees with the history and with the score.
THEOREM QueriesKept == Spec => []HistoryQueriesAgree
BY ScoreKept, TypeCorrect, QueriesAgree, PTL

\* The score that is stored, the history and the answers to its queries agree.
THEOREM HistoryAgreement == Spec => []HistoryAgrees
BY ScoreKept, HistoryKept, QueriesKept, PTL DEF HistoryAgrees

(***************************************************************************)
(* The metrics.                                                            *)
(***************************************************************************)

LEMMA NextMetrics ==
  TypeOK /\ MetricsConsistent /\ [Next]_vars => MetricsConsistent'
<1> SUFFICES ASSUME TypeOK, MetricsConsistent, [Next]_vars
             PROVE  MetricsConsistent'
  OBVIOUS
<1>1. ASSUME NEW s \in Subjects, NEW a \in BOOLEAN, NEW b \in BOOLEAN,
             NEW c \in BOOLEAN, RecordTransaction(s, a, b, c)
      PROVE  MetricsConsistent'
  <2> DEFINE m == MetricsOf(s)
  <2>1. PICK r \in SubjectMetrics :
          /\ metrics' = [metrics EXCEPT ![s] = r]
          /\ r.transaction_count = m.transaction_count + 1
          /\ r.account_created_at = m.account_created_at
          /\ r.distinct_asset_count =
               IF a THEN m.distinct_asset_count + 1 ELSE m.distinct_asset_count
          /\ r.cross_border_tx_count =
               IF b THEN m.cross_border_tx_count + 1
               ELSE m.cross_border_tx_count
          /\ r.cross_border_corridors =
               IF b /\ c THEN m.cross_border_corridors + 1
               ELSE m.cross_border_corridors
    BY <1>1, RecordedMetrics
  <2>2. /\ m.transaction_count \in Nat /\ m.account_created_at \in Nat
        /\ m.distinct_asset_count \in Nat /\ m.cross_border_tx_count \in Nat
        /\ m.cross_border_corridors \in Nat
    BY MetricsOfType DEF SubjectMetrics
  <2>3. /\ m.cross_border_corridors <= m.cross_border_tx_count
        /\ m.cross_border_tx_count <= m.transaction_count
        /\ m.distinct_asset_count <= m.transaction_count
        /\ m.account_created_at <= now
    BY DEF MetricsConsistent, MetricsOf, TypeOK
  <2> HIDE DEF m
  <2>4. /\ r.cross_border_corridors <= r.cross_border_tx_count
        /\ r.cross_border_tx_count <= r.transaction_count
        /\ r.distinct_asset_count <= r.transaction_count
        /\ 0 < r.transaction_count
        /\ r.account_created_at <= now
    BY <2>1, <2>2, <2>3
  <2>5. now' = now
    BY <1>1 DEF RecordTransaction
  <2>6. \A x \in Subjects : metrics'[x] = IF x = s THEN r ELSE metrics[x]
    BY <2>1 DEF TypeOK
  <2> QED
    BY <2>4, <2>5, <2>6 DEF MetricsConsistent
<1>2. ASSUME UNCHANGED metrics, now' \in Nat, now <= now'
      PROVE  MetricsConsistent'
  <2>1. now \in Nat
    BY DEF TypeOK
  <2>2. \A s \in Subjects : metrics[s] # NoMetrics =>
          metrics[s].account_created_at \in Nat
    BY DEF TypeOK, SubjectMetrics
  <2> QED
    BY <1>2, <2>1, <2>2 DEF MetricsConsistent
<1>3. ASSUME NEW e \in TimeSteps, Tick(e)
      PROVE  UNCHANGED metrics /\ now' \in Nat /\ now <= now'
  BY <1>3, InputsAssumption DEF Tick, TypeOK
<1>4. ASSUME NEW s \in Subjects, NEW on_time \in BOOLEAN,
             RecordRepayment(s, on_time)
      PROVE  UNCHANGED metrics /\ now' \in Nat /\ now <= now'
  BY <1>4 DEF RecordRepayment, TypeOK
<1>5. ASSUME NEW s \in Subjects, RecordDefault(s)
      PROVE  UNCHANGED metrics /\ now' \in Nat /\ now <= now'
  BY <1>5 DEF RecordDefault, TypeOK
<1>6. ASSUME NEW s \in Subjects, NEW n \in CredentialCounts, ComputeScore(s, n)
      PROVE  UNCHANGED metrics /\ now' \in Nat /\ now <= now'
  BY <1>6 DEF ComputeScore, TypeOK
<1>7. CASE UNCHANGED vars
  BY <1>2, <1>7 DEF vars, TypeOK
<1> QED
  BY <1>1, <1>2, <1>3, <1>4, <1>5, <1>6, <1>7 DEF Next

\* The counters of the metrics never contradict one another.
THEOREM MetricsKept == Spec => []MetricsConsistent
<1>1. TypeOK /\ HistoryBounded /\ [Next]_vars => (TypeOK /\ HistoryBounded)'
  BY NextType
<1>2. Init => MetricsConsistent
  BY DEF Init, MetricsConsistent
<1> QED
  BY InitType, <1>1, <1>2, NextMetrics, PTL DEF Spec

(***************************************************************************)
(* The summary and the raw events.                                         *)
(***************************************************************************)

OnTime(events) == {k \in DOMAIN events : events[k].on_time}

RepaymentsCounted(ph, events) ==
  /\ ph.total_repayments = Len(events)
  /\ ph.on_time_repayments = Cardinality(OnTime(events))
  /\ ph.late_repayments = Len(events) - Cardinality(OnTime(events))

LastOnTimeKept(ph, events) ==
  IF OnTime(events) = {} THEN ph.last_on_time_at = 0
  ELSE \E k \in OnTime(events) :
         /\ \A j \in OnTime(events) : j <= k
         /\ ph.last_on_time_at = events[k].recorded_at

DefaultsCounted(ph, events) ==
  /\ ph.total_defaults = Len(events)
  /\ ph.last_default_at = IF events = <<>> THEN 0
                          ELSE events[Len(events)].recorded_at

LEMMA SummaryInParts ==
  SummaryMatchesEvents <=>
    \A s \in Subjects : /\ RepaymentsCounted(summary[s], repayments[s])
                        /\ LastOnTimeKept(summary[s], repayments[s])
                        /\ DefaultsCounted(summary[s], defaults[s])
BY DEF SummaryMatchesEvents, RepaymentsCounted, LastOnTimeKept,
       DefaultsCounted, OnTime

\* What recording one more repayment does to the positions of those on time.
LEMMA OnTimeAppended ==
  ASSUME NEW events \in Seq(RepaymentEvent), NEW e \in RepaymentEvent
  PROVE  /\ Len(Append(events, e)) = Len(events) + 1 /\ Len(events) \in Nat
         /\ OnTime(events) \subseteq 1..Len(events)
         /\ Cardinality(OnTime(events)) \in Nat
         /\ OnTime(Append(events, e)) =
              OnTime(events) \cup (IF e.on_time THEN {Len(events) + 1} ELSE {})
         /\ Cardinality(OnTime(Append(events, e))) =
              Cardinality(OnTime(events)) + (IF e.on_time THEN 1 ELSE 0)
         /\ \A k \in 1..Len(events) : Append(events, e)[k] = events[k]
         /\ Append(events, e)[Len(events) + 1] = e
<1> DEFINE longer == Append(events, e)
           n == Len(events)
<1>1. /\ longer \in Seq(RepaymentEvent)
      /\ Len(longer) = n + 1
      /\ \A k \in 1..n : longer[k] = events[k]
      /\ longer[n + 1] = e
  BY AppendProperties
<1>2. n \in Nat /\ DOMAIN events = 1..n /\ DOMAIN longer = 1..(n + 1)
  BY <1>1, LenProperties
<1> HIDE DEF longer, n
<1>3. OnTime(events) \subseteq 1..n
  BY <1>2 DEF OnTime
<1>4. IsFiniteSet(OnTime(events)) /\ Cardinality(OnTime(events)) \in Nat
  <2>1. IsFiniteSet(1..n)
    BY <1>2, FS_Interval
  <2>2. IsFiniteSet(OnTime(events))
    BY <1>3, <2>1, FS_Subset
  <2> QED
    BY <2>2, FS_CardinalityType
<1>5. 1..(n + 1) = (1..n) \cup {n + 1} /\ n + 1 \notin 1..n
  BY <1>2
<1>6. OnTime(longer) =
        OnTime(events) \cup (IF e.on_time THEN {n + 1} ELSE {})
  <2>1. OnTime(longer) = {k \in (1..n) \cup {n + 1} : longer[k].on_time}
    BY <1>2, <1>5 DEF OnTime
  <2>2. \A k \in 1..n : k \in OnTime(longer) <=> k \in OnTime(events)
    BY <1>1, <1>2, <2>1 DEF OnTime
  <2>3. n + 1 \in OnTime(longer) <=> e.on_time
    BY <1>1, <2>1
  <2> QED
    BY <1>3, <2>1, <2>2, <2>3
<1>7. n + 1 \notin OnTime(events)
  BY <1>3, <1>5
<1>8. Cardinality(OnTime(longer)) =
        Cardinality(OnTime(events)) + (IF e.on_time THEN 1 ELSE 0)
  <2>1. CASE e.on_time
    <3>1. OnTime(longer) = OnTime(events) \cup {n + 1}
      BY <1>6, <2>1
    <3>2. Cardinality(OnTime(longer)) = Cardinality(OnTime(events)) + 1
      BY <1>4, <1>7, <3>1, FS_AddElement
    <3> QED
      BY <2>1, <3>2
  <2>2. CASE ~e.on_time
    <3>1. OnTime(longer) = OnTime(events)
      BY <1>6, <2>2
    <3> QED
      BY <1>4, <2>2, <3>1
  <2> QED
    BY <2>1, <2>2
<1> QED
  BY <1>1, <1>2, <1>3, <1>4, <1>6, <1>8 DEF longer, n

\* The fields of the summary record_repayment stores.
Repaid(q, ph, on_time, time) ==
  /\ q.total_repayments = ph.total_repayments + 1
  /\ q.on_time_repayments =
       ph.on_time_repayments + (IF on_time THEN 1 ELSE 0)
  /\ q.late_repayments = ph.late_repayments + (IF on_time THEN 0 ELSE 1)
  /\ q.total_defaults = ph.total_defaults
  /\ q.last_on_time_at = IF on_time THEN time ELSE ph.last_on_time_at
  /\ q.last_default_at = ph.last_default_at

LEMMA RepaidFields ==
  ASSUME TypeOK, NEW s \in Subjects, NEW on_time \in BOOLEAN,
         RecordRepayment(s, on_time)
  PROVE  \E q : /\ summary' = [summary EXCEPT ![s] = q]
               /\ Repaid(q, summary[s], on_time, now)
<1> DEFINE ph == summary[s]
<1>1. ph \in PaymentHistory /\ now \in Nat
  BY DEF TypeOK
<1>2. PICK q :
        /\ summary' = [summary EXCEPT ![s] = q]
        /\ on_time =>
             q = [ph EXCEPT !.total_repayments = ph.total_repayments + 1,
                            !.on_time_repayments = ph.on_time_repayments + 1,
                            !.last_on_time_at = now]
        /\ ~on_time =>
             q = [ph EXCEPT !.total_repayments = ph.total_repayments + 1,
                            !.late_repayments = ph.late_repayments + 1]
  BY DEF RecordRepayment
<1> HIDE DEF ph
<1>3. on_time => Repaid(q, ph, on_time, now)
  <2> SUFFICES ASSUME on_time
               PROVE  Repaid(q, ph, on_time, now)
    OBVIOUS
  <2>1. /\ q.total_repayments = ph.total_repayments + 1
        /\ q.on_time_repayments = ph.on_time_repayments + 1
        /\ q.late_repayments = ph.late_repayments
        /\ q.total_defaults = ph.total_defaults
        /\ q.last_on_time_at = now
        /\ q.last_default_at = ph.last_default_at
    BY <1>1, <1>2 DEF PaymentHistory
  <2>2. ph.late_repayments \in Nat
    BY <1>1 DEF PaymentHistory
  <2> QED
    BY <2>1, <2>2 DEF Repaid
<1>4. ~on_time => Repaid(q, ph, on_time, now)
  <2> SUFFICES ASSUME ~on_time
               PROVE  Repaid(q, ph, on_time, now)
    OBVIOUS
  <2>1. /\ q.total_repayments = ph.total_repayments + 1
        /\ q.on_time_repayments = ph.on_time_repayments
        /\ q.late_repayments = ph.late_repayments + 1
        /\ q.total_defaults = ph.total_defaults
        /\ q.last_on_time_at = ph.last_on_time_at
        /\ q.last_default_at = ph.last_default_at
    BY <1>1, <1>2 DEF PaymentHistory
  <2>2. ph.on_time_repayments \in Nat
    BY <1>1 DEF PaymentHistory
  <2> QED
    BY <2>1, <2>2 DEF Repaid
<1>5. Repaid(q, ph, on_time, now)
  BY <1>3, <1>4
<1> QED
  BY <1>2, <1>5 DEF ph

\* The same for record_default.
LEMMA DefaultedFields ==
  ASSUME TypeOK, NEW s \in Subjects, RecordDefault(s)
  PROVE  \E q : /\ summary' = [summary EXCEPT ![s] = q]
               /\ q.total_repayments = summary[s].total_repayments
               /\ q.on_time_repayments = summary[s].on_time_repayments
               /\ q.late_repayments = summary[s].late_repayments
               /\ q.total_defaults = summary[s].total_defaults + 1
               /\ q.last_on_time_at = summary[s].last_on_time_at
               /\ q.last_default_at = now
<1> DEFINE ph == summary[s]
<1>1. ph \in PaymentHistory /\ now \in Nat
  BY DEF TypeOK
<1>2. PICK q : /\ summary' = [summary EXCEPT ![s] = q]
               /\ q = [ph EXCEPT !.total_defaults = ph.total_defaults + 1,
                                 !.last_default_at = now]
  BY DEF RecordDefault
<1> HIDE DEF ph
<1>3. /\ q.total_repayments = ph.total_repayments
      /\ q.on_time_repayments = ph.on_time_repayments
      /\ q.late_repayments = ph.late_repayments
      /\ q.total_defaults = ph.total_defaults + 1
      /\ q.last_on_time_at = ph.last_on_time_at
      /\ q.last_default_at = now
  BY <1>1, <1>2 DEF PaymentHistory
<1> QED
  BY <1>2, <1>3 DEF ph

LEMMA NextSummary ==
  TypeOK /\ SummaryMatchesEvents /\ [Next]_vars => SummaryMatchesEvents'
<1> SUFFICES ASSUME TypeOK, SummaryMatchesEvents, [Next]_vars
             PROVE  SummaryMatchesEvents'
  OBVIOUS
<1> DEFINE Matches(s) == /\ RepaymentsCounted(summary[s], repayments[s])
                         /\ LastOnTimeKept(summary[s], repayments[s])
                         /\ DefaultsCounted(summary[s], defaults[s])
<1>1. \A s \in Subjects : Matches(s)
  BY SummaryInParts
<1>2. SUFFICES \A s \in Subjects : Matches(s)'
  BY DEF SummaryMatchesEvents, RepaymentsCounted, LastOnTimeKept,
         DefaultsCounted, OnTime
<1>3. ASSUME UNCHANGED paymentVars
      PROVE  \A s \in Subjects : Matches(s)'
  BY <1>1, <1>3 DEF paymentVars
<1>4. ASSUME NEW s \in Subjects, NEW on_time \in BOOLEAN,
             RecordRepayment(s, on_time)
      PROVE  \A x \in Subjects : Matches(x)'
  <2> DEFINE e == [on_time |-> on_time, recorded_at |-> now]
             events == repayments[s]
             longer == Append(events, e)
             n == Len(events)
  <2>1. events \in Seq(RepaymentEvent) /\ e \in RepaymentEvent
    BY DEF TypeOK, RepaymentEvent
  <2>2. /\ repayments' = [repayments EXCEPT ![s] = longer]
        /\ defaults' = defaults
    BY <1>4 DEF RecordRepayment
  <2>3. PICK q : /\ summary' = [summary EXCEPT ![s] = q]
                 /\ Repaid(q, summary[s], on_time, now)
    BY <1>4, RepaidFields
  <2>4. e.on_time = on_time /\ e.recorded_at = now
    OBVIOUS
  <2> HIDE DEF e, events, n
  <2>5. /\ Len(longer) = n + 1 /\ n \in Nat
        /\ OnTime(events) \subseteq 1..n
        /\ Cardinality(OnTime(events)) \in Nat
        /\ OnTime(longer) =
             OnTime(events) \cup (IF on_time THEN {n + 1} ELSE {})
        /\ Cardinality(OnTime(longer)) =
             Cardinality(OnTime(events)) + (IF on_time THEN 1 ELSE 0)
        /\ \A k \in 1..n : longer[k] = events[k]
        /\ longer[n + 1] = e
    BY <2>1, <2>4, OnTimeAppended DEF n
  <2>6. Matches(s)
    BY <1>1
  <2>7. RepaymentsCounted(q, longer)
    <3>1. /\ summary[s].total_repayments = n
          /\ summary[s].on_time_repayments = Cardinality(OnTime(events))
          /\ summary[s].late_repayments = n - Cardinality(OnTime(events))
      BY <2>6 DEF RepaymentsCounted, n, events
    <3> HIDE DEF longer
    <3> QED
      BY <2>3, <2>5, <3>1 DEF RepaymentsCounted, Repaid
  <2>8. LastOnTimeKept(q, longer)
    <3>1. LastOnTimeKept(summary[s], events)
      BY <2>6 DEF events
    <3> HIDE DEF longer
    <3>2. CASE on_time
      <4>1. n + 1 \in OnTime(longer) /\ q.last_on_time_at = longer[n + 1].recorded_at
        BY <2>3, <2>4, <2>5, <3>2 DEF Repaid
      <4>2. \A j \in OnTime(longer) : j <= n + 1
        BY <2>5, <3>2
      <4> QED
        BY <4>1, <4>2 DEF LastOnTimeKept
    <3>3. CASE ~on_time
      <4>1. /\ OnTime(longer) = OnTime(events)
            /\ q.last_on_time_at = summary[s].last_on_time_at
            /\ \A k \in OnTime(events) : longer[k] = events[k]
        BY <2>3, <2>5, <3>3 DEF Repaid
      <4> QED
        BY <3>1, <4>1 DEF LastOnTimeKept
    <3> QED
      BY <3>2, <3>3
  <2>9. DefaultsCounted(q, defaults[s])
    BY <2>3, <2>6 DEF DefaultsCounted, Repaid
  <2>10. /\ summary'[s] = q /\ repayments'[s] = longer
         /\ \A x \in Subjects \ {s} : /\ summary'[x] = summary[x]
                                      /\ repayments'[x] = repayments[x]
    BY <2>2, <2>3 DEF TypeOK
  <2> HIDE DEF longer
  <2> QED
    BY <1>1, <2>2, <2>7, <2>8, <2>9, <2>10
<1>5. ASSUME NEW s \in Subjects, RecordDefault(s)
      PROVE  \A x \in Subjects : Matches(x)'
  <2> DEFINE e == [recorded_at |-> now]
             longer == Append(defaults[s], e)
  <2>1. defaults[s] \in Seq(DefaultEvent) /\ e \in DefaultEvent
    BY DEF TypeOK, DefaultEvent
  <2>2. /\ defaults' = [defaults EXCEPT ![s] = longer]
        /\ repayments' = repayments
    BY <1>5 DEF RecordDefault
  <2>3. PICK q : /\ summary' = [summary EXCEPT ![s] = q]
                 /\ q.total_repayments = summary[s].total_repayments
                 /\ q.on_time_repayments = summary[s].on_time_repayments
                 /\ q.late_repayments = summary[s].late_repayments
                 /\ q.total_defaults = summary[s].total_defaults + 1
                 /\ q.last_on_time_at = summary[s].last_on_time_at
                 /\ q.last_default_at = now
    BY <1>5, DefaultedFields
  <2>4. e.recorded_at = now
    OBVIOUS
  <2> HIDE DEF e
  <2>5. /\ Len(longer) = Len(defaults[s]) + 1 /\ longer # <<>>
        /\ longer[Len(longer)] = e
    BY <2>1, AppendProperties, LenProperties
  <2>6. Matches(s)
    BY <1>1
  <2>7. DefaultsCounted(q, longer)
    <3>1. summary[s].total_defaults = Len(defaults[s])
      BY <2>6 DEF DefaultsCounted
    <3> HIDE DEF longer
    <3> QED
      BY <2>3, <2>4, <2>5, <3>1 DEF DefaultsCounted
  <2>8. RepaymentsCounted(q, repayments[s]) /\ LastOnTimeKept(q, repayments[s])
    BY <2>3, <2>6 DEF RepaymentsCounted, LastOnTimeKept
  <2>9. /\ summary'[s] = q /\ defaults'[s] = longer
        /\ \A x \in Subjects \ {s} : /\ summary'[x] = summary[x]
                                     /\ defaults'[x] = defaults[x]
    BY <2>2, <2>3 DEF TypeOK
  <2> HIDE DEF longer
  <2> QED
    BY <1>1, <2>2, <2>7, <2>8, <2>9
<1>6. ASSUME NEW e \in TimeSteps, Tick(e)
      PROVE  UNCHANGED paymentVars
  BY <1>6 DEF Tick
<1>7. ASSUME NEW s \in Subjects, NEW a \in BOOLEAN, NEW b \in BOOLEAN,
             NEW c \in BOOLEAN, RecordTransaction(s, a, b, c)
      PROVE  UNCHANGED paymentVars
  BY <1>7 DEF RecordTransaction
<1>8. ASSUME NEW s \in Subjects, NEW n \in CredentialCounts, ComputeScore(s, n)
      PROVE  UNCHANGED paymentVars
  BY <1>8 DEF ComputeScore
<1>9. CASE UNCHANGED vars
  BY <1>3, <1>9 DEF vars
<1> QED
  BY <1>3, <1>4, <1>5, <1>6, <1>7, <1>8, <1>9 DEF Next

LEMMA InitSummary == Init => SummaryMatchesEvents
<1> SUFFICES ASSUME Init, NEW s \in Subjects
             PROVE  /\ RepaymentsCounted(summary[s], repayments[s])
                    /\ LastOnTimeKept(summary[s], repayments[s])
                    /\ DefaultsCounted(summary[s], defaults[s])
  BY SummaryInParts
<1>1. /\ summary[s] = EmptyHistory
      /\ repayments[s] = <<>> /\ defaults[s] = <<>>
  BY DEF Init
<1>2. Len(<<>>) = 0 /\ OnTime(<<>>) = {} /\ Cardinality({}) = 0
  BY FS_EmptySet DEF OnTime
<1>3. /\ summary[s].total_repayments = 0 /\ summary[s].on_time_repayments = 0
      /\ summary[s].late_repayments = 0 /\ summary[s].total_defaults = 0
      /\ summary[s].last_on_time_at = 0 /\ summary[s].last_default_at = 0
  BY <1>1 DEF EmptyHistory
<1>4. RepaymentsCounted(summary[s], repayments[s])
  <2>1. Len(repayments[s]) = 0 /\ Cardinality(OnTime(repayments[s])) = 0
    BY <1>1, <1>2, Zenon
  <2> QED
    BY <1>3, <2>1 DEF RepaymentsCounted
<1>5. LastOnTimeKept(summary[s], repayments[s])
  BY <1>1, <1>2, <1>3 DEF LastOnTimeKept
<1>6. DefaultsCounted(summary[s], defaults[s])
  BY <1>1, <1>2, <1>3 DEF DefaultsCounted
<1> QED
  BY <1>4, <1>5, <1>6

\* The aggregated history always agrees with the raw events, for any number
\* of them.
THEOREM SummaryKept == Spec => []SummaryMatchesEvents
<1>1. TypeOK /\ HistoryBounded /\ [Next]_vars => (TypeOK /\ HistoryBounded)'
  BY NextType
<1> QED
  BY InitType, <1>1, InitSummary, NextSummary, PTL DEF Spec

(***************************************************************************)
(* What data_points tells of a score.                                      *)
(***************************************************************************)

FreshScore(s) ==
  score[s] # NoScore =>
    /\ score[s].data_points <= DataPoints(s)
    /\ score[s].data_points = DataPoints(s) =>
         /\ score[s].components.payment_history =
              ComponentsOf(s, 0).payment_history
         /\ score[s].components.transaction_volume =
              ComponentsOf(s, 0).transaction_volume
         /\ score[s].components.asset_diversity =
              ComponentsOf(s, 0).asset_diversity
         /\ score[s].components.cross_border_activity =
              ComponentsOf(s, 0).cross_border_activity

LEMMA FreshByScore == FreshUnlessNewData <=> \A s \in Subjects : FreshScore(s)
BY DEF FreshUnlessNewData, FreshScore

\* Nothing is read of the clock by the components the property is about.
LEMMA FreshFrame ==
  ASSUME NEW s \in Subjects, FreshScore(s), score'[s] = score[s],
         summary'[s] = summary[s], metrics'[s] = metrics[s]
  PROVE  FreshScore(s)'
<1>1. /\ MetricsOf(s)'.transaction_count = MetricsOf(s).transaction_count
      /\ MetricsOf(s)'.distinct_asset_count = MetricsOf(s).distinct_asset_count
      /\ MetricsOf(s)'.cross_border_tx_count =
           MetricsOf(s).cross_border_tx_count
  BY DEF MetricsOf
<1>2. DataPoints(s)' = DataPoints(s)
  BY <1>1 DEF DataPoints
<1>3. /\ ComponentsOf(s, 0)'.payment_history =
           ComponentsOf(s, 0).payment_history
      /\ ComponentsOf(s, 0)'.transaction_volume =
           ComponentsOf(s, 0).transaction_volume
      /\ ComponentsOf(s, 0)'.asset_diversity =
           ComponentsOf(s, 0).asset_diversity
      /\ ComponentsOf(s, 0)'.cross_border_activity =
           ComponentsOf(s, 0).cross_border_activity
  BY <1>1 DEF ComponentsOf
<1> QED
  BY <1>2, <1>3 DEF FreshScore

\* A score with fewer data points than there are claims nothing.
LEMMA FreshOutgrown ==
  ASSUME TypeOK, TypeOK', NEW s \in Subjects, FreshScore(s),
         score'[s] = score[s], DataPoints(s)' > DataPoints(s)
  PROVE  FreshScore(s)'
<1>1. DataPoints(s) \in Nat /\ DataPoints(s)' \in Nat
  <2>1. DataPoints(s) \in Nat
    BY DataPointsType
  <2>2. MetricsOf(s)' \in SubjectMetrics /\ summary'[s] \in PaymentHistory
    BY DEF TypeOK, MetricsOf, SubjectMetrics
  <2>3. DataPoints(s)' \in Nat
    BY <2>2 DEF DataPoints, SubjectMetrics, PaymentHistory
  <2> QED
    BY <2>1, <2>3
<1>2. score[s] # NoScore => score[s].data_points \in Nat
  BY DEF TypeOK, CreditScoreRecord
<1> QED
  BY <1>1, <1>2 DEF FreshScore

LEMMA FreshComputed ==
  ASSUME TypeOK, NEW s \in Subjects, NEW n \in CredentialCounts,
         ComputeScore(s, n)
  PROVE  FreshScore(s)'
<1>1. score'[s] = [score |-> Composite(ComponentsOf(s, n)),
                   components |-> ComponentsOf(s, n),
                   last_updated |-> now, data_points |-> DataPoints(s)]
  BY DEF ComputeScore, TypeOK
<1>2. DataPoints(s)' = DataPoints(s) /\ ComponentsOf(s, 0)' = ComponentsOf(s, 0)
  BY DEF ComputeScore, paymentVars, DataPoints, ComponentsOf, MetricsOf
<1>3. DataPoints(s) \in Nat
  BY DataPointsType
<1>4. /\ ComponentsOf(s, n).payment_history =
           ComponentsOf(s, 0).payment_history
      /\ ComponentsOf(s, n).transaction_volume =
           ComponentsOf(s, 0).transaction_volume
      /\ ComponentsOf(s, n).asset_diversity =
           ComponentsOf(s, 0).asset_diversity
      /\ ComponentsOf(s, n).cross_border_activity =
           ComponentsOf(s, 0).cross_border_activity
  BY DEF ComponentsOf
<1> QED
  BY <1>1, <1>2, <1>3, <1>4 DEF FreshScore

\* Each recording of one subject adds to its data points and leaves the others.
LEMMA FreshRepaid ==
  ASSUME TypeOK, TypeOK', NEW s \in Subjects, NEW on_time \in BOOLEAN,
         RecordRepayment(s, on_time), NEW x \in Subjects, FreshScore(x)
  PROVE  FreshScore(x)'
<1>1. PICK q : /\ summary' = [summary EXCEPT ![s] = q]
               /\ Repaid(q, summary[s], on_time, now)
  BY RepaidFields
<1>2. score' = score /\ metrics' = metrics /\ now' = now
  BY DEF RecordRepayment, scoreVars
<1>3. CASE x = s
  <2>1. summary'[s] = q /\ MetricsOf(s)' = MetricsOf(s)
    BY <1>1, <1>2 DEF TypeOK, MetricsOf
  <2>2. /\ q.total_repayments = summary[s].total_repayments + 1
        /\ q.total_defaults = summary[s].total_defaults
    BY <1>1 DEF Repaid
  <2>3. summary[s] \in PaymentHistory /\ MetricsOf(s) \in SubjectMetrics
    BY MetricsOfType DEF TypeOK
  <2>4. /\ summary[s].total_repayments \in Nat
        /\ summary[s].total_defaults \in Nat
        /\ MetricsOf(s).transaction_count \in Nat
        /\ MetricsOf(s).cross_border_tx_count \in Nat
    BY <2>3 DEF PaymentHistory, SubjectMetrics
  <2>5. DataPoints(s)' > DataPoints(s)
    BY <2>1, <2>2, <2>4 DEF DataPoints
  <2> QED
    BY <1>2, <1>3, <2>5, FreshOutgrown
<1>4. CASE x # s
  BY <1>1, <1>2, <1>4, FreshFrame DEF TypeOK
<1> QED
  BY <1>3, <1>4

LEMMA FreshDefaulted ==
  ASSUME TypeOK, TypeOK', NEW s \in Subjects, RecordDefault(s),
         NEW x \in Subjects, FreshScore(x)
  PROVE  FreshScore(x)'
<1>1. PICK q : /\ summary' = [summary EXCEPT ![s] = q]
               /\ q.total_repayments = summary[s].total_repayments
               /\ q.total_defaults = summary[s].total_defaults + 1
  BY DefaultedFields
<1>2. score' = score /\ metrics' = metrics /\ now' = now
  BY DEF RecordDefault, scoreVars
<1>3. CASE x = s
  <2>1. summary'[s] = q /\ MetricsOf(s)' = MetricsOf(s)
    BY <1>1, <1>2 DEF TypeOK, MetricsOf
  <2>2. summary[s] \in PaymentHistory /\ MetricsOf(s) \in SubjectMetrics
    BY MetricsOfType DEF TypeOK
  <2>3. /\ summary[s].total_repayments \in Nat
        /\ summary[s].total_defaults \in Nat
        /\ MetricsOf(s).transaction_count \in Nat
        /\ MetricsOf(s).cross_border_tx_count \in Nat
    BY <2>2 DEF PaymentHistory, SubjectMetrics
  <2>4. DataPoints(s)' > DataPoints(s)
    BY <1>1, <2>1, <2>3 DEF DataPoints
  <2> QED
    BY <1>2, <1>3, <2>4, FreshOutgrown
<1>4. CASE x # s
  BY <1>1, <1>2, <1>4, FreshFrame DEF TypeOK
<1> QED
  BY <1>3, <1>4

LEMMA FreshTransacted ==
  ASSUME TypeOK, TypeOK', NEW s \in Subjects, NEW a \in BOOLEAN,
         NEW b \in BOOLEAN, NEW c \in BOOLEAN, RecordTransaction(s, a, b, c),
         NEW x \in Subjects, FreshScore(x)
  PROVE  FreshScore(x)'
<1>1. PICK r \in SubjectMetrics :
        /\ metrics' = [metrics EXCEPT ![s] = r]
        /\ r.transaction_count = MetricsOf(s).transaction_count + 1
        /\ r.cross_border_tx_count =
             IF b THEN MetricsOf(s).cross_border_tx_count + 1
             ELSE MetricsOf(s).cross_border_tx_count
  BY RecordedMetrics
<1>2. score' = score /\ summary' = summary
  BY DEF RecordTransaction, scoreVars, paymentVars
<1>3. CASE x = s
  <2>1. metrics'[s] = r
    BY <1>1 DEF TypeOK
  <2>2. r # NoMetrics
    BY AbsentAssumption
  <2>3. MetricsOf(s)' = r
    BY <2>1, <2>2 DEF MetricsOf
  <2>4. summary[s] \in PaymentHistory /\ MetricsOf(s) \in SubjectMetrics
    BY MetricsOfType DEF TypeOK
  <2>5. /\ summary[s].total_repayments \in Nat
        /\ summary[s].total_defaults \in Nat
        /\ MetricsOf(s).transaction_count \in Nat
        /\ MetricsOf(s).cross_border_tx_count \in Nat
    BY <2>4 DEF PaymentHistory, SubjectMetrics
  <2>6. DataPoints(s)' > DataPoints(s)
    BY <1>1, <1>2, <2>3, <2>5 DEF DataPoints
  <2> QED
    BY <1>2, <1>3, <2>6, FreshOutgrown
<1>4. CASE x # s
  BY <1>1, <1>2, <1>4, FreshFrame DEF TypeOK
<1> QED
  BY <1>3, <1>4

LEMMA NextFresh ==
  ASSUME TypeOK, TypeOK', FreshUnlessNewData, [Next]_vars
  PROVE  FreshUnlessNewData'
<1> SUFFICES ASSUME NEW x \in Subjects
             PROVE  FreshScore(x)'
  BY DEF FreshUnlessNewData, FreshScore
<1>1. FreshScore(x)
  BY FreshByScore
<1>2. ASSUME NEW d \in TimeSteps, Tick(d)
      PROVE  FreshScore(x)'
  BY <1>1, <1>2, FreshFrame DEF Tick, scoreVars, paymentVars
<1>3. ASSUME NEW s \in Subjects, NEW on_time \in BOOLEAN,
             RecordRepayment(s, on_time)
      PROVE  FreshScore(x)'
  BY <1>1, <1>3, FreshRepaid
<1>4. ASSUME NEW s \in Subjects, RecordDefault(s)
      PROVE  FreshScore(x)'
  BY <1>1, <1>4, FreshDefaulted
<1>5. ASSUME NEW s \in Subjects, NEW a \in BOOLEAN, NEW b \in BOOLEAN,
             NEW c \in BOOLEAN, RecordTransaction(s, a, b, c)
      PROVE  FreshScore(x)'
  BY <1>1, <1>5, FreshTransacted
<1>6. ASSUME NEW s \in Subjects, NEW n \in CredentialCounts, ComputeScore(s, n)
      PROVE  FreshScore(x)'
  <2>1. CASE x = s
    BY <1>6, <2>1, FreshComputed
  <2>2. CASE x # s
    <3>1. /\ score'[x] = score[x]
          /\ summary' = summary /\ metrics' = metrics
      BY <1>6, <2>2 DEF ComputeScore, paymentVars, TypeOK
    <3> QED
      BY <1>1, <3>1, FreshFrame
  <2> QED
    BY <2>1, <2>2
<1>7. CASE UNCHANGED vars
  BY <1>1, <1>7, FreshFrame DEF vars, scoreVars, paymentVars
<1> QED
  BY <1>2, <1>3, <1>4, <1>5, <1>6, <1>7 DEF Next

\* While data_points equals what has been recorded, the score is the one a new
\* computation would give, but for age and credentials.
THEOREM FreshnessKept == Spec => []FreshUnlessNewData
<1>1. TypeOK /\ HistoryBounded /\ [Next]_vars => (TypeOK /\ HistoryBounded)'
  BY NextType
<1>2. Init => FreshUnlessNewData
  BY DEF Init, FreshUnlessNewData
<1>3. TypeOK /\ TypeOK' /\ FreshUnlessNewData /\ [Next]_vars
        => FreshUnlessNewData'
  BY NextFresh
<1> QED
  BY InitType, <1>1, <1>2, <1>3, PTL DEF Spec

(***************************************************************************)
(* Which way the score moves.                                              *)
(***************************************************************************)

\* The quotient fits into the dividend.
LEMMA DivLower ==
  ASSUME NEW a \in Nat, NEW b \in Nat \ {0}
  PROVE  a \div b \in Nat /\ (a \div b) * b <= a
OBVIOUS

\* Nothing greater fits.
LEMMA DivGreatest ==
  ASSUME NEW a \in Nat, NEW b \in Nat \ {0}, NEW q \in Nat, q * b <= a
  PROVE  q <= a \div b
OBVIOUS

\* It keeps an upper bound.
LEMMA DivBound ==
  ASSUME NEW a \in Nat, NEW b \in Nat \ {0}, NEW m \in Nat, a <= m * b
  PROVE  a \div b <= m
OBVIOUS

\* It grows with the dividend.
LEMMA DivMonotone ==
  ASSUME NEW a \in Nat, NEW c \in Nat, NEW b \in Nat \ {0}, a <= c
  PROVE  a \div b <= c \div b
OBVIOUS

\* Higher tiers give at least as much.
RisingTable(table) ==
  \A j, k \in 1..Len(table) : j <= k => table[j][2] <= table[k][2]

\* The tables of the contract are such tables too.
LEMMA TablesRise ==
  /\ RisingTable(VolumeTable) /\ RisingTable(LongevityTable)
  /\ RisingTable(DiversityTable) /\ RisingTable(CrossBorderTable)
  /\ RisingTable(CredentialsTable)
<1>1. RisingTable(VolumeTable)
  BY DEF RisingTable, VolumeTable
<1>2. RisingTable(LongevityTable)
  BY DEF RisingTable, LongevityTable
<1>3. RisingTable(DiversityTable)
  BY DEF RisingTable, DiversityTable
<1>4. RisingTable(CrossBorderTable)
  BY DEF RisingTable, CrossBorderTable
<1>5. RisingTable(CredentialsTable)
  BY DEF RisingTable, CredentialsTable
<1> QED
  BY <1>1, <1>2, <1>3, <1>4, <1>5

\* A larger quantity never reaches a lower tier.
LEMMA TierRises ==
  ASSUME NEW table \in Seq(Nat \X SubScores), table # <<>>, table[1][1] = 0,
         RisingTable(table), NEW m \in Nat, NEW n \in Nat, m <= n
  PROVE  Tier(table, m) <= Tier(table, n)
<1> DEFINE reached(x) == {k \in DOMAIN table : table[k][1] <= x}
<1>1. /\ Len(table) \in Nat \ {0}
      /\ DOMAIN table = 1..Len(table)
      /\ \A k \in 1..Len(table) : table[k][1] \in Nat
  BY LenProperties, EmptySeq, ElementOfSeq
<1>2. IsFiniteSet(1..Len(table)) /\ Cardinality(1..Len(table)) = Len(table)
  BY <1>1, FS_Interval
<1>3. /\ reached(m) \subseteq reached(n)
      /\ reached(n) \subseteq 1..Len(table)
      /\ 1 \in reached(m)
  BY <1>1
<1>4. IsFiniteSet(reached(n)) /\ Cardinality(reached(n)) <= Len(table)
  BY <1>2, <1>3, FS_Subset
<1>5. /\ IsFiniteSet(reached(m))
      /\ Cardinality(reached(m)) <= Cardinality(reached(n))
  BY <1>3, <1>4, FS_Subset
<1>6. /\ Cardinality(reached(m)) \in Nat /\ Cardinality(reached(n)) \in Nat
      /\ Cardinality(reached(m)) # 0
  BY <1>3, <1>4, <1>5, FS_EmptySet, FS_CardinalityType
<1>7. /\ Cardinality(reached(m)) \in 1..Len(table)
      /\ Cardinality(reached(n)) \in 1..Len(table)
  BY <1>1, <1>4, <1>5, <1>6
<1>8. table[Cardinality(reached(m))][2] <= table[Cardinality(reached(n))][2]
  <2> HIDE DEF reached
  <2> QED
    BY <1>5, <1>7 DEF RisingTable
<1> QED
  BY <1>8 DEF Tier

\* at least as many in each component
AtLeast(c, d) ==
  /\ c.payment_history >= d.payment_history
  /\ c.transaction_volume >= d.transaction_volume
  /\ c.account_longevity >= d.account_longevity
  /\ c.asset_diversity >= d.asset_diversity
  /\ c.cross_border_activity >= d.cross_border_activity
  /\ c.credential_completeness >= d.credential_completeness

\* The composite keeps the order of the components.
LEMMA CompositeRises ==
  ASSUME NEW c \in ScoreComponents, NEW d \in ScoreComponents, AtLeast(c, d)
  PROVE  Composite(c) >= Composite(d)
<1> DEFINE sum(x) == x.payment_history * 35 + x.transaction_volume * 20
                       + x.account_longevity * 15 + x.asset_diversity * 10
                       + x.cross_border_activity * 10
                       + x.credential_completeness * 10
<1>1. sum(c) \in Nat /\ sum(d) \in Nat /\ sum(d) <= sum(c)
  <2>1. ASSUME NEW x \in ScoreComponents
        PROVE  /\ x.payment_history \in Nat /\ x.transaction_volume \in Nat
               /\ x.account_longevity \in Nat /\ x.asset_diversity \in Nat
               /\ x.cross_border_activity \in Nat
               /\ x.credential_completeness \in Nat
    <3>1. SubScores \subseteq Nat
      BY DEF SubScores
    <3> QED
      BY <3>1 DEF ScoreComponents
  <2> QED
    BY <2>1 DEF AtLeast
<1> HIDE DEF sum
<1>2. /\ sum(c) \div 100 \in Nat /\ sum(d) \div 100 \in Nat
      /\ sum(d) \div 100 <= sum(c) \div 100
  BY <1>1, DivMonotone, DivLower
<1>3. /\ RawComposite(c) \in Nat /\ RawComposite(d) \in Nat
      /\ RawComposite(d) <= RawComposite(c)
  BY <1>2 DEF RawComposite, sum
<1>4. \A m, n \in Nat : m <= n =>
        Clamp(300 + (m * 600) \div 900, 300, 900)
          <= Clamp(300 + (n * 600) \div 900, 300, 900)
  BY DEF Clamp
<1> QED
  BY <1>3, <1>4 DEF Composite, SCORE_MIN, SCORE_MAX

\* a summary's repayments are on time or late
Counted(ph) ==
  /\ ph.total_repayments \in Nat /\ ph.on_time_repayments \in Nat
  /\ ph.late_repayments \in Nat /\ ph.total_defaults \in Nat
  /\ ph.on_time_repayments + ph.late_repayments = ph.total_repayments

\* q basis points of the repayments, or less, are on time
AtMostOnTime(ph, q) ==
  q * ph.total_repayments <= ph.on_time_repayments * 10000

\* The penalty of a share of q basis points.
LEMMA PenaltyOf ==
  ASSUME NEW q \in Nat, q <= 10000
  PROVE  /\ (400 * (10000 - q)) \div 10000 \in Nat
         /\ (400 * (10000 - q)) \div 10000 <= 400
OBVIOUS

\* It falls as the share rises.
LEMMA PenaltyFalls ==
  ASSUME NEW x \in Nat, NEW y \in Nat, x <= y, y <= 10000
  PROVE  (400 * (10000 - y)) \div 10000 <= (400 * (10000 - x)) \div 10000
OBVIOUS

\* The share is the greatest number of basis points that are on time.
LEMMA ShareExists ==
  ASSUME NEW ph, Counted(ph), ph.total_repayments # 0
  PROVE  \E q \in Nat :
           /\ q <= 10000 /\ AtMostOnTime(ph, q)
           /\ \A r \in Nat : AtMostOnTime(ph, r) => r <= q
           /\ LatePenalty(ph) = (400 * (10000 - q)) \div 10000
<1> DEFINE t == ph.total_repayments
           a == ph.on_time_repayments * 10000
           q == a \div t
<1>1. t \in Nat \ {0} /\ a \in Nat /\ a <= 10000 * t
  BY DEF Counted
<1>2. LatePenalty(ph) = (400 * (10000 - q)) \div 10000
  BY DEF LatePenalty
<1>3. \A r : AtMostOnTime(ph, r) <=> r * t <= a
  BY DEF AtMostOnTime
<1> HIDE DEF t, a
<1>4. q \in Nat /\ q * t <= a /\ q <= 10000
  BY <1>1, DivLower, DivBound
<1>5. \A r \in Nat : r * t <= a => r <= q
  BY <1>1, DivGreatest
<1> HIDE DEF q
<1> QED
  BY <1>2, <1>3, <1>4, <1>5

\* The penalty of late repayments, which is none if there are none.
LEMMA LatePenaltyRange ==
  ASSUME NEW ph, Counted(ph)
  PROVE  /\ LatePenalty(ph) \in Nat /\ LatePenalty(ph) <= 400
         /\ ph.late_repayments = 0 => LatePenalty(ph) = 0
<1>1. CASE ph.total_repayments = 0
  BY <1>1 DEF LatePenalty
<1>2. CASE ph.total_repayments # 0
  <2>1. PICK q \in Nat :
          /\ q <= 10000
          /\ \A r \in Nat : AtMostOnTime(ph, r) => r <= q
          /\ LatePenalty(ph) = (400 * (10000 - q)) \div 10000
    BY <1>2, ShareExists
  <2>2. LatePenalty(ph) \in Nat /\ LatePenalty(ph) <= 400
    BY <2>1, PenaltyOf
  <2>3. ASSUME ph.late_repayments = 0 PROVE LatePenalty(ph) = 0
    <3>1. AtMostOnTime(ph, 10000)
      BY <2>3 DEF AtMostOnTime, Counted
    <3>2. q = 10000
      BY <2>1, <3>1
    <3> QED
      BY <2>1, <3>2
  <2> QED
    BY <2>2, <2>3
<1> QED
  BY <1>1, <1>2

\* The penalty falls if every share that is reached stays reached.
LEMMA PenaltyCompare ==
  ASSUME NEW p, NEW q, Counted(p), Counted(q),
         p.total_repayments # 0, q.total_repayments # 0,
         \A r \in Nat : r <= 10000 /\ AtMostOnTime(p, r) => AtMostOnTime(q, r)
  PROVE  LatePenalty(q) <= LatePenalty(p)
<1>1. PICK x \in Nat : /\ x <= 10000 /\ AtMostOnTime(p, x)
                       /\ LatePenalty(p) = (400 * (10000 - x)) \div 10000
  BY ShareExists
<1>2. PICK y \in Nat : /\ y <= 10000
                       /\ \A r \in Nat : AtMostOnTime(q, r) => r <= y
                       /\ LatePenalty(q) = (400 * (10000 - y)) \div 10000
  BY ShareExists
<1>3. x <= y
  BY <1>1, <1>2
<1> QED
  BY <1>1, <1>2, <1>3, PenaltyFalls

\* The penalty of defaults, likewise.
LEMMA DefaultPenaltyRange ==
  ASSUME NEW ph, Counted(ph)
  PROVE  /\ DefaultPenalty(ph) \in Nat /\ DefaultPenalty(ph) <= 600
         /\ ph.total_defaults = 0 => DefaultPenalty(ph) = 0
BY DEF DefaultPenalty, Least, Counted

\* The sub-score falls as the penalties rise.
LEMMA SubscoreCompare ==
  ASSUME NEW p, NEW q, Counted(p), Counted(q),
         LatePenalty(q) <= LatePenalty(p),
         DefaultPenalty(q) <= DefaultPenalty(p)
  PROVE  Clamp(900 - LatePenalty(p) - DefaultPenalty(p), 0, 900)
           <= Clamp(900 - LatePenalty(q) - DefaultPenalty(q), 0, 900)
<1> DEFINE l == LatePenalty(q)
           d == DefaultPenalty(q)
           m == LatePenalty(p)
           e == DefaultPenalty(p)
<1>1. l \in Nat /\ d \in Nat /\ m \in Nat /\ e \in Nat
  BY LatePenaltyRange, DefaultPenaltyRange
<1>2. l <= m /\ d <= e
  OBVIOUS
<1> HIDE DEF l, d, m, e
<1>3. Clamp(900 - m - e, 0, 900) <= Clamp(900 - l - d, 0, 900)
  BY <1>1, <1>2 DEF Clamp
<1> QED
  BY <1>3 DEF l, d, m, e

\* What recording does to the sub-score: a repayment on time.
LEMMA PaidOnTime ==
  ASSUME NEW ph, NEW q, Counted(ph), Counted(q),
         q.total_repayments = ph.total_repayments + 1,
         q.on_time_repayments = ph.on_time_repayments + 1,
         q.total_defaults = ph.total_defaults
  PROVE  PaymentSubscore(q) >= PaymentSubscore(ph)
<1>1. q.total_repayments # 0 /\ q.late_repayments = ph.late_repayments
  <2>1. /\ ph.total_repayments \in Nat /\ ph.on_time_repayments \in Nat
        /\ ph.late_repayments \in Nat /\ q.late_repayments \in Nat
        /\ ph.on_time_repayments + ph.late_repayments = ph.total_repayments
        /\ q.on_time_repayments + q.late_repayments = q.total_repayments
    BY DEF Counted
  <2> QED
    BY <2>1
<1>2. PaymentSubscore(q) =
        Clamp(900 - LatePenalty(q) - DefaultPenalty(q), 0, 900)
  BY <1>1 DEF PaymentSubscore
<1>3. CASE ph.total_repayments = 0 /\ ph.total_defaults = 0
  <2>1. q.late_repayments = 0 /\ q.total_defaults = 0
    BY <1>1, <1>3 DEF Counted
  <2>2. LatePenalty(q) = 0 /\ DefaultPenalty(q) = 0
    BY <2>1, LatePenaltyRange, DefaultPenaltyRange
  <2> QED
    BY <1>2, <1>3, <2>2 DEF PaymentSubscore, Clamp
<1>4. CASE ~(ph.total_repayments = 0 /\ ph.total_defaults = 0)
  <2>1. PaymentSubscore(ph) =
          Clamp(900 - LatePenalty(ph) - DefaultPenalty(ph), 0, 900)
    BY <1>4 DEF PaymentSubscore
  <2>2. DefaultPenalty(q) <= DefaultPenalty(ph)
    BY DefaultPenaltyRange DEF DefaultPenalty
  <2>3. LatePenalty(q) <= LatePenalty(ph)
    <3>1. CASE ph.total_repayments = 0
      <4>1. q.late_repayments = 0
        BY <1>1, <3>1 DEF Counted
      <4> QED
        BY <4>1, LatePenaltyRange
    <3>2. CASE ph.total_repayments # 0
      <4>1. ASSUME NEW r \in Nat, r <= 10000, AtMostOnTime(ph, r)
            PROVE  AtMostOnTime(q, r)
        <5> DEFINE t == ph.total_repayments
                   o == ph.on_time_repayments
        <5>1. t \in Nat /\ o \in Nat
          BY DEF Counted
        <5>2. r * t <= o * 10000
          BY <4>1 DEF AtMostOnTime
        <5> HIDE DEF t, o
        <5>3. r * (t + 1) = r * t + r
          BY <5>1
        <5>4. r * (t + 1) <= (o + 1) * 10000
          BY <4>1, <5>1, <5>2, <5>3
        <5> QED
          BY <5>4 DEF AtMostOnTime, t, o
      <4> QED
        BY <1>1, <3>2, <4>1, PenaltyCompare
    <3> QED
      BY <3>1, <3>2
  <2>4. PaymentSubscore(ph) <= PaymentSubscore(q)
    BY <1>2, <2>1, <2>2, <2>3, SubscoreCompare
  <2>5. PaymentSubscore(ph) \in Int /\ PaymentSubscore(q) \in Int
    BY <1>2, <2>1, LatePenaltyRange, DefaultPenaltyRange DEF Clamp
  <2> QED
    BY <2>4, <2>5
<1> QED
  BY <1>3, <1>4

\* A late repayment, also the first event of all.
LEMMA PaidLate ==
  ASSUME NEW ph, NEW q, Counted(ph), Counted(q),
         q.total_repayments = ph.total_repayments + 1,
         q.on_time_repayments = ph.on_time_repayments,
         q.total_defaults = ph.total_defaults
  PROVE  PaymentSubscore(q) <= PaymentSubscore(ph)
<1>1. q.total_repayments # 0
  <2>1. ph.total_repayments \in Nat
    BY DEF Counted
  <2> QED
    BY <2>1
<1>2. PaymentSubscore(q) =
        Clamp(900 - LatePenalty(q) - DefaultPenalty(q), 0, 900)
  BY <1>1 DEF PaymentSubscore
<1>3. CASE ph.total_repayments = 0 /\ ph.total_defaults = 0
  <2>1. /\ q.total_repayments = 1 /\ q.on_time_repayments = 0
        /\ q.total_defaults = 0
    BY <1>3 DEF Counted
  <2>2. LatePenalty(q) = 400
    BY <2>1 DEF LatePenalty
  <2>3. DefaultPenalty(q) = 0
    BY <2>1, DefaultPenaltyRange
  <2> QED
    BY <1>2, <1>3, <2>2, <2>3 DEF PaymentSubscore, Clamp
<1>4. CASE ~(ph.total_repayments = 0 /\ ph.total_defaults = 0)
  <2>1. PaymentSubscore(ph) =
          Clamp(900 - LatePenalty(ph) - DefaultPenalty(ph), 0, 900)
    BY <1>4 DEF PaymentSubscore
  <2>2. DefaultPenalty(ph) <= DefaultPenalty(q)
    BY DefaultPenaltyRange DEF DefaultPenalty
  <2>3. LatePenalty(ph) <= LatePenalty(q)
    <3>1. CASE ph.total_repayments = 0
      <4>1. ph.late_repayments = 0
        BY <3>1 DEF Counted
      <4> QED
        BY <4>1, LatePenaltyRange
    <3>2. CASE ph.total_repayments # 0
      <4>1. ASSUME NEW r \in Nat, r <= 10000, AtMostOnTime(q, r)
            PROVE  AtMostOnTime(ph, r)
        <5> DEFINE t == ph.total_repayments
                   o == ph.on_time_repayments
        <5>1. t \in Nat /\ o \in Nat
          BY DEF Counted
        <5>2. r * (t + 1) <= o * 10000
          BY <4>1 DEF AtMostOnTime
        <5> HIDE DEF t, o
        <5>3. r * (t + 1) = r * t + r
          BY <5>1
        <5>4. r * t <= o * 10000
          BY <4>1, <5>1, <5>2, <5>3
        <5> QED
          BY <5>4 DEF AtMostOnTime, t, o
      <4> QED
        BY <1>1, <3>2, <4>1, PenaltyCompare
    <3> QED
      BY <3>1, <3>2
  <2> QED
    BY <1>2, <2>1, <2>2, <2>3, SubscoreCompare
<1> QED
  BY <1>3, <1>4

\* A default, unless it is the first event of all.
LEMMA Defaulted ==
  ASSUME NEW ph, NEW q, Counted(ph), Counted(q),
         q.total_repayments = ph.total_repayments,
         q.on_time_repayments = ph.on_time_repayments,
         q.total_defaults = ph.total_defaults + 1,
         ph.total_repayments # 0 \/ ph.total_defaults # 0
  PROVE  PaymentSubscore(q) <= PaymentSubscore(ph)
<1>1. LatePenalty(ph) <= LatePenalty(q)
  BY LatePenaltyRange DEF LatePenalty
<1>2. DefaultPenalty(ph) <= DefaultPenalty(q)
  BY DEF DefaultPenalty, Least, Counted
<1>3. /\ PaymentSubscore(ph) =
           Clamp(900 - LatePenalty(ph) - DefaultPenalty(ph), 0, 900)
      /\ PaymentSubscore(q) =
           Clamp(900 - LatePenalty(q) - DefaultPenalty(q), 0, 900)
  BY DEF PaymentSubscore, Counted
<1> QED
  BY <1>1, <1>2, <1>3, SubscoreCompare

\* Every summary that agrees with its events counts its repayments.
LEMMA SummaryCounts ==
  ASSUME TypeOK, SummaryMatchesEvents, NEW s \in Subjects
  PROVE  Counted(summary[s])
<1>1. RepaymentsCounted(summary[s], repayments[s])
  BY SummaryInParts
<1>2. summary[s] \in PaymentHistory
  BY DEF TypeOK
<1>3. /\ summary[s].total_repayments \in Nat
      /\ summary[s].on_time_repayments \in Nat
      /\ summary[s].late_repayments \in Nat /\ summary[s].total_defaults \in Nat
  BY <1>2 DEF PaymentHistory
<1> QED
  BY <1>1, <1>3 DEF RepaymentsCounted, Counted

\* The longer ago an account was created, the older it is.
LEMMA AgeRises ==
  ASSUME NEW c \in Nat, NEW m \in Nat, NEW n \in Nat, m <= n
  PROVE  /\ AgeInDays(c, m) \in Nat /\ AgeInDays(c, n) \in Nat
         /\ AgeInDays(c, m) <= AgeInDays(c, n)
BY DEF AgeInDays, SecondsPerDay

\* What time and transactions change makes no component of a score smaller.
MetricsGrow(s) ==
  /\ MetricsOf(s)'.transaction_count >= MetricsOf(s).transaction_count
  /\ AgeInDays(MetricsOf(s)'.account_created_at, now')
       >= AgeInDays(MetricsOf(s).account_created_at, now)
  /\ MetricsOf(s)'.distinct_asset_count >= MetricsOf(s).distinct_asset_count
  /\ MetricsOf(s)'.cross_border_tx_count >= MetricsOf(s).cross_border_tx_count

ComponentsTyped ==
  \A s \in Subjects, n \in Nat : ComponentsOf(s, n) \in ScoreComponents

\* The components of a score that would be computed have their types after
\* a step.
LEMMA ComponentsTypedNext == TypeOK' => ComponentsTyped'
<1>1. TypeOK => ComponentsTyped
  BY ComponentsType DEF ComponentsTyped
<1> QED
  BY <1>1, PTL

\* A score rises with the payment history, if nothing else falls.
LEMMA LiveScoreRises ==
  ASSUME TypeOK, TypeOK', NEW s \in Subjects, NEW n \in Nat,
         PaymentSubscore(summary'[s]) >= PaymentSubscore(summary[s]),
         MetricsGrow(s)
  PROVE  LiveScore(s, n)' >= LiveScore(s, n)
<1> DEFINE m == MetricsOf(s)
<1>1. /\ ComponentsOf(s, n) \in ScoreComponents
      /\ ComponentsOf(s, n)' \in ScoreComponents
  BY ComponentsType, ComponentsTypedNext DEF ComponentsTyped
<1>2. m \in SubjectMetrics /\ m' \in SubjectMetrics /\ now \in Nat /\ now' \in Nat
  BY MetricsOfType DEF TypeOK, MetricsOf, SubjectMetrics
<1>3. \A table \in {VolumeTable, LongevityTable, DiversityTable,
                    CrossBorderTable, CredentialsTable}, j, k \in Nat :
        j <= k => Tier(table, j) <= Tier(table, k)
  BY TablesTyped, TablesRise, TierRises
<1>4. AtLeast(ComponentsOf(s, n)', ComponentsOf(s, n))
  <2>1. /\ m.transaction_count \in Nat /\ m'.transaction_count \in Nat
        /\ m.account_created_at \in Nat /\ m'.account_created_at \in Nat
        /\ m.distinct_asset_count \in Nat /\ m'.distinct_asset_count \in Nat
        /\ m.cross_border_tx_count \in Nat /\ m'.cross_border_tx_count \in Nat
    BY <1>2 DEF SubjectMetrics
  <2>2. /\ AgeInDays(m.account_created_at, now) \in Nat
        /\ AgeInDays(m'.account_created_at, now') \in Nat
    <3>1. \A c, t \in Nat : AgeInDays(c, t) \in Nat
      BY AgeRises
    <3> QED
      BY <1>2, <2>1, <3>1
  <2>3. /\ m.transaction_count <= m'.transaction_count
        /\ AgeInDays(m.account_created_at, now)
             <= AgeInDays(m'.account_created_at, now')
        /\ m.distinct_asset_count <= m'.distinct_asset_count
        /\ m.cross_border_tx_count <= m'.cross_border_tx_count
    <3>1. /\ m'.transaction_count >= m.transaction_count
          /\ AgeInDays(m'.account_created_at, now')
               >= AgeInDays(m.account_created_at, now)
          /\ m'.distinct_asset_count >= m.distinct_asset_count
          /\ m'.cross_border_tx_count >= m.cross_border_tx_count
      BY DEF MetricsGrow
    <3> HIDE DEF m
    <3> QED
      BY <2>1, <2>2, <3>1
  <2>4. /\ Tier(VolumeTable, m.transaction_count)
             <= Tier(VolumeTable, m'.transaction_count)
        /\ Tier(LongevityTable, AgeInDays(m.account_created_at, now))
             <= Tier(LongevityTable, AgeInDays(m'.account_created_at, now'))
        /\ Tier(DiversityTable, m.distinct_asset_count)
             <= Tier(DiversityTable, m'.distinct_asset_count)
        /\ Tier(CrossBorderTable, m.cross_border_tx_count)
             <= Tier(CrossBorderTable, m'.cross_border_tx_count)
        /\ Tier(CredentialsTable, n) <= Tier(CredentialsTable, n)
    <3> HIDE DEF m
    <3> QED
      BY <1>3, <2>1, <2>2, <2>3
  <2> QED
    BY <1>1, <2>4 DEF AtLeast, ComponentsOf
<1> QED
  BY <1>1, <1>4, CompositeRises DEF LiveScore

\* It falls with the payment history, if nothing else changes.
LEMMA LiveScoreFalls ==
  ASSUME TypeOK, TypeOK', NEW s \in Subjects, NEW n \in Nat,
         PaymentSubscore(summary'[s]) <= PaymentSubscore(summary[s]),
         metrics'[s] = metrics[s], now' = now
  PROVE  LiveScore(s, n)' <= LiveScore(s, n)
<1>1. /\ ComponentsOf(s, n) \in ScoreComponents
      /\ ComponentsOf(s, n)' \in ScoreComponents
  BY ComponentsType, ComponentsTypedNext DEF ComponentsTyped
<1>2. MetricsOf(s)' = MetricsOf(s)
  BY DEF MetricsOf
<1>3. /\ PaymentSubscore(summary[s]) \in SubScores
      /\ PaymentSubscore(summary'[s]) \in SubScores
  BY PaymentInRange DEF TypeOK
<1>4. AtLeast(ComponentsOf(s, n), ComponentsOf(s, n)')
  <2>1. /\ ComponentsOf(s, n)'.payment_history <= ComponentsOf(s, n).payment_history
        /\ ComponentsOf(s, n)'.transaction_volume = ComponentsOf(s, n).transaction_volume
        /\ ComponentsOf(s, n)'.account_longevity = ComponentsOf(s, n).account_longevity
        /\ ComponentsOf(s, n)'.asset_diversity = ComponentsOf(s, n).asset_diversity
        /\ ComponentsOf(s, n)'.cross_border_activity =
             ComponentsOf(s, n).cross_border_activity
        /\ ComponentsOf(s, n)'.credential_completeness =
             ComponentsOf(s, n).credential_completeness
    BY <1>2 DEF ComponentsOf
  <2> DEFINE c == ComponentsOf(s, n)
             d == ComponentsOf(s, n)'
  <2>2. c \in ScoreComponents /\ SubScores \subseteq Int
    BY <1>1 DEF SubScores
  <2>3. /\ c.transaction_volume \in Int /\ c.account_longevity \in Int
        /\ c.asset_diversity \in Int /\ c.cross_border_activity \in Int
        /\ c.credential_completeness \in Int
    <3> HIDE DEF c
    <3> QED
      BY <2>2 DEF ScoreComponents
  <2>4. /\ d.payment_history <= c.payment_history
        /\ d.transaction_volume = c.transaction_volume
        /\ d.account_longevity = c.account_longevity
        /\ d.asset_diversity = c.asset_diversity
        /\ d.cross_border_activity = c.cross_border_activity
        /\ d.credential_completeness = c.credential_completeness
    BY <2>1
  <2> HIDE DEF c, d
  <2>5. AtLeast(c, d)
    BY <2>3, <2>4 DEF AtLeast
  <2> QED
    BY <2>5 DEF c, d
<1> QED
  BY <1>1, <1>4, CompositeRises DEF LiveScore

\* A step that leaves a subject's records alone, except that time may pass.
LEMMA MetricsGrowWithTime ==
  ASSUME TypeOK, TypeOK', NEW s \in Subjects, metrics'[s] = metrics[s], now <= now'
  PROVE  MetricsGrow(s)
<1>1. now \in Nat /\ now' \in Nat
  BY DEF TypeOK
<1>2. CASE metrics[s] # NoMetrics
  <2>1. MetricsOf(s)' = MetricsOf(s) /\ MetricsOf(s) \in SubjectMetrics
    BY <1>2, MetricsOfType DEF MetricsOf
  <2> DEFINE m == MetricsOf(s)
  <2>2. /\ m.transaction_count \in Nat /\ m.account_created_at \in Nat
        /\ m.distinct_asset_count \in Nat /\ m.cross_border_tx_count \in Nat
        /\ m' = m
    BY <2>1 DEF SubjectMetrics
  <2>3. AgeInDays(m.account_created_at, now') >= AgeInDays(m.account_created_at, now)
    <3> HIDE DEF m
    <3> QED
      BY <1>1, <2>2, AgeRises
  <2> QED
    BY <2>1, <2>2, <2>3 DEF MetricsGrow
<1>3. CASE metrics[s] = NoMetrics
  <2>1. /\ MetricsOf(s) = [transaction_count |-> 0, account_created_at |-> now,
            distinct_asset_count |-> 0, cross_border_tx_count |-> 0,
            cross_border_corridors |-> 0, credential_count |-> 0]
        /\ MetricsOf(s)' = [transaction_count |-> 0, account_created_at |-> now',
            distinct_asset_count |-> 0, cross_border_tx_count |-> 0,
            cross_border_corridors |-> 0, credential_count |-> 0]
    BY <1>3 DEF MetricsOf
  <2>2. AgeInDays(now, now) = 0 /\ AgeInDays(now', now') = 0
    BY <1>1 DEF AgeInDays
  <2> QED
    BY <2>1, <2>2 DEF MetricsGrow
<1> QED
  BY <1>2, <1>3

\* One more transaction.
LEMMA MetricsGrowWithTransactions ==
  ASSUME TypeOK, NEW s \in Subjects, NEW a \in BOOLEAN, NEW b \in BOOLEAN,
         NEW c \in BOOLEAN, RecordTransaction(s, a, b, c)
  PROVE  MetricsGrow(s)
<1>1. PICK r \in SubjectMetrics :
        /\ metrics' = [metrics EXCEPT ![s] = r]
        /\ r.transaction_count = MetricsOf(s).transaction_count + 1
        /\ r.account_created_at = MetricsOf(s).account_created_at
        /\ r.distinct_asset_count =
             IF a THEN MetricsOf(s).distinct_asset_count + 1
             ELSE MetricsOf(s).distinct_asset_count
        /\ r.cross_border_tx_count =
             IF b THEN MetricsOf(s).cross_border_tx_count + 1
             ELSE MetricsOf(s).cross_border_tx_count
  BY RecordedMetrics
<1>2. MetricsOf(s)' = r /\ now' = now /\ now \in Nat
  BY <1>1, AbsentAssumption DEF TypeOK, MetricsOf, RecordTransaction
<1> DEFINE m == MetricsOf(s)
<1>3. m \in SubjectMetrics
  BY MetricsOfType
<1>4. /\ m.transaction_count \in Nat /\ m.account_created_at \in Nat
      /\ m.distinct_asset_count \in Nat /\ m.cross_border_tx_count \in Nat
  BY <1>3 DEF SubjectMetrics
<1>5. AgeInDays(m.account_created_at, now) >= AgeInDays(m.account_created_at, now)
  BY <1>2, <1>4 DEF AgeInDays, SecondsPerDay
<1> HIDE DEF m
<1>6. /\ r.transaction_count >= m.transaction_count
      /\ r.distinct_asset_count >= m.distinct_asset_count
      /\ r.cross_border_tx_count >= m.cross_border_tx_count
  BY <1>1, <1>4 DEF m
<1> QED
  BY <1>1, <1>2, <1>5, <1>6 DEF MetricsGrow, m

\* Nothing that is about a subject changes, but time may pass.
LEMMA LiveScoreStays ==
  ASSUME TypeOK, TypeOK', NEW s \in Subjects, NEW n \in Nat,
         summary'[s] = summary[s], metrics'[s] = metrics[s], now <= now'
  PROVE  LiveScore(s, n)' >= LiveScore(s, n)
<1>1. PaymentSubscore(summary[s]) \in SubScores
  BY PaymentInRange DEF TypeOK
<1>2. PaymentSubscore(summary'[s]) >= PaymentSubscore(summary[s])
  <2>1. \A p \in SubScores : p >= p
    BY DEF SubScores
  <2> QED
    BY <1>1, <2>1
<1> QED
  BY <1>2, LiveScoreRises, MetricsGrowWithTime

\* A repayment on time of the subject itself.
LEMMA RepaidRises ==
  ASSUME TypeOK, TypeOK', SummaryMatchesEvents, SummaryMatchesEvents',
         NEW s \in Subjects, NEW n \in Nat, RecordRepayment(s, TRUE)
  PROVE  LiveScore(s, n)' >= LiveScore(s, n)
<1>1. PICK q : /\ summary' = [summary EXCEPT ![s] = q]
               /\ Repaid(q, summary[s], TRUE, now)
  BY RepaidFields
<1>2. summary'[s] = q /\ metrics' = metrics /\ now' = now /\ now \in Nat
  BY <1>1 DEF RecordRepayment, TypeOK
<1>3. Counted(summary[s])
  BY SummaryCounts
<1>4. /\ q.total_repayments = summary[s].total_repayments + 1
      /\ q.on_time_repayments = summary[s].on_time_repayments + 1
      /\ q.late_repayments = summary[s].late_repayments + 0
      /\ q.total_defaults = summary[s].total_defaults
  BY <1>1 DEF Repaid
<1>5. Counted(q)
  BY <1>3, <1>4 DEF Counted
<1>6. PaymentSubscore(q) >= PaymentSubscore(summary[s])
  BY <1>3, <1>4, <1>5, PaidOnTime
<1>7. MetricsGrow(s)
  BY <1>2, MetricsGrowWithTime
<1> QED
  BY <1>2, <1>6, <1>7, LiveScoreRises

\* A late repayment of the subject itself.
LEMMA RepaidLateFalls ==
  ASSUME TypeOK, TypeOK', SummaryMatchesEvents,
         NEW s \in Subjects, NEW n \in Nat, RecordRepayment(s, FALSE)
  PROVE  LiveScore(s, n)' <= LiveScore(s, n)
<1>1. PICK q : /\ summary' = [summary EXCEPT ![s] = q]
               /\ Repaid(q, summary[s], FALSE, now)
  BY RepaidFields
<1>2. summary'[s] = q /\ metrics' = metrics /\ now' = now
  BY <1>1 DEF RecordRepayment, TypeOK
<1>3. Counted(summary[s])
  BY SummaryCounts
<1>4. /\ q.total_repayments = summary[s].total_repayments + 1
      /\ q.on_time_repayments = summary[s].on_time_repayments + 0
      /\ q.late_repayments = summary[s].late_repayments + 1
      /\ q.total_defaults = summary[s].total_defaults
  BY <1>1 DEF Repaid
<1>5. Counted(q) /\ q.on_time_repayments = summary[s].on_time_repayments
  BY <1>3, <1>4 DEF Counted
<1>6. PaymentSubscore(q) <= PaymentSubscore(summary[s])
  BY <1>3, <1>4, <1>5, PaidLate
<1> QED
  BY <1>2, <1>6, LiveScoreFalls

\* Without repayments and defaults, a summary is empty.
LEMMA NoHistory ==
  ASSUME TypeOK, SummaryMatchesEvents, NEW s \in Subjects,
         summary[s].total_repayments = 0, summary[s].total_defaults = 0
  PROVE  summary[s] = EmptyHistory
<1> DEFINE ph == summary[s]
<1>1. /\ RepaymentsCounted(ph, repayments[s])
      /\ LastOnTimeKept(ph, repayments[s])
      /\ DefaultsCounted(ph, defaults[s])
  BY SummaryInParts
<1>2. repayments[s] = <<>> /\ defaults[s] = <<>>
  BY <1>1, EmptySeq DEF RepaymentsCounted, DefaultsCounted, TypeOK
<1>3. OnTime(repayments[s]) = {}
  BY <1>2 DEF OnTime
<1>4. ph.last_on_time_at = 0 /\ ph.last_default_at = 0
  BY <1>1, <1>2, <1>3 DEF LastOnTimeKept, DefaultsCounted
<1>5. ph.on_time_repayments = 0 /\ ph.late_repayments = 0
  <2>1. Counted(ph)
    BY SummaryCounts
  <2> QED
    BY <2>1 DEF Counted
<1>6. ph \in PaymentHistory
  BY DEF TypeOK
<1> QED
  BY <1>4, <1>5, <1>6 DEF PaymentHistory, EmptyHistory

\* A default of a subject with a history.
LEMMA DefaultedFalls ==
  ASSUME TypeOK, TypeOK', SummaryMatchesEvents,
         NEW s \in Subjects, NEW n \in Nat, RecordDefault(s),
         summary[s] # EmptyHistory
  PROVE  LiveScore(s, n)' <= LiveScore(s, n)
<1>1. PICK q : /\ summary' = [summary EXCEPT ![s] = q]
               /\ q.total_repayments = summary[s].total_repayments
               /\ q.on_time_repayments = summary[s].on_time_repayments
               /\ q.late_repayments = summary[s].late_repayments
               /\ q.total_defaults = summary[s].total_defaults + 1
  BY DefaultedFields
<1>2. summary'[s] = q /\ metrics' = metrics /\ now' = now
  BY <1>1 DEF RecordDefault, TypeOK
<1>3. Counted(summary[s])
  BY SummaryCounts
<1>4. Counted(q)
  BY <1>1, <1>3 DEF Counted
<1>5. summary[s].total_repayments # 0 \/ summary[s].total_defaults # 0
  BY NoHistory
<1>6. PaymentSubscore(q) <= PaymentSubscore(summary[s])
  BY <1>1, <1>3, <1>4, <1>5, Defaulted
<1> QED
  BY <1>2, <1>6, LiveScoreFalls

\* What a step does to a subject's setbacks, and to the score he would be given.
ScoreFollows(s, n) ==
  LET late == summary'[s].late_repayments # summary[s].late_repayments
      defaulted == summary'[s].total_defaults # summary[s].total_defaults
  IN /\ ~late /\ ~defaulted => LiveScore(s, n)' >= LiveScore(s, n)
     /\ late => LiveScore(s, n)' <= LiveScore(s, n)
     /\ defaulted /\ summary[s] # EmptyHistory =>
          LiveScore(s, n)' <= LiveScore(s, n)

\* The two action properties, subject by subject and call by call.
LEMMA NextLiveScore ==
  ASSUME TypeOK, TypeOK', SummaryMatchesEvents, SummaryMatchesEvents', Next,
         NEW s \in Subjects, NEW n \in Nat
  PROVE  ScoreFollows(s, n)
<1>1. now \in Nat /\ summary[s] \in PaymentHistory
  BY DEF TypeOK
<1>2. /\ summary[s].late_repayments \in Nat /\ summary[s].total_defaults \in Nat
      /\ now <= now
  BY <1>1 DEF PaymentHistory
<1>3. ASSUME summary'[s] = summary[s], metrics'[s] = metrics[s], now <= now'
      PROVE  ScoreFollows(s, n)
  BY <1>3, LiveScoreStays DEF ScoreFollows
<1>4. ASSUME NEW d \in TimeSteps, Tick(d)
      PROVE  ScoreFollows(s, n)
  <2>1. summary' = summary /\ metrics' = metrics /\ now' = now + d /\ d \in Nat
    BY <1>4, InputsAssumption DEF Tick, paymentVars
  <2>2. now <= now'
    BY <1>1, <2>1
  <2> QED
    BY <1>3, <2>1, <2>2
<1>5. ASSUME NEW x \in Subjects, NEW on_time \in BOOLEAN,
             RecordRepayment(x, on_time)
      PROVE  ScoreFollows(s, n)
  <2>1. PICK q : /\ summary' = [summary EXCEPT ![x] = q]
                 /\ Repaid(q, summary[x], on_time, now)
    BY <1>5, RepaidFields
  <2>2. metrics' = metrics /\ now' = now
    BY <1>5 DEF RecordRepayment
  <2>3. CASE x # s
    <3>1. summary'[s] = summary[s]
      BY <2>1, <2>3 DEF TypeOK
    <3> QED
      BY <1>2, <1>3, <2>2, <3>1
  <2>4. CASE x = s
    <3>1. /\ summary'[s] = q
          /\ q.total_defaults = summary[s].total_defaults
          /\ q.late_repayments =
               summary[s].late_repayments + (IF on_time THEN 0 ELSE 1)
      BY <2>1, <2>4 DEF TypeOK, Repaid
    <3>2. CASE on_time = TRUE
      <4>1. q.late_repayments = summary[s].late_repayments
        BY <1>2, <3>1, <3>2
      <4>2. LiveScore(s, n)' >= LiveScore(s, n)
        BY <1>5, <2>4, <3>2, RepaidRises
      <4> QED
        BY <3>1, <4>1, <4>2 DEF ScoreFollows
    <3>3. CASE on_time = FALSE
      <4>1. q.late_repayments # summary[s].late_repayments
        BY <1>2, <3>1, <3>3
      <4>2. LiveScore(s, n)' <= LiveScore(s, n)
        BY <1>5, <2>4, <3>3, RepaidLateFalls
      <4> QED
        BY <3>1, <4>1, <4>2 DEF ScoreFollows
    <3> QED
      BY <3>2, <3>3
  <2> QED
    BY <2>3, <2>4
<1>6. ASSUME NEW x \in Subjects, RecordDefault(x)
      PROVE  ScoreFollows(s, n)
  <2>1. PICK q : /\ summary' = [summary EXCEPT ![x] = q]
                 /\ q.late_repayments = summary[x].late_repayments
                 /\ q.total_defaults = summary[x].total_defaults + 1
    BY <1>6, DefaultedFields
  <2>2. metrics' = metrics /\ now' = now
    BY <1>6 DEF RecordDefault
  <2>3. CASE x # s
    <3>1. summary'[s] = summary[s]
      BY <2>1, <2>3 DEF TypeOK
    <3> QED
      BY <1>2, <1>3, <2>2, <3>1
  <2>4. CASE x = s
    <3>1. /\ summary'[s] = q
          /\ q.late_repayments = summary[s].late_repayments
          /\ q.total_defaults = summary[s].total_defaults + 1
      BY <2>1, <2>4 DEF TypeOK
    <3>2. q.total_defaults # summary[s].total_defaults
      BY <1>2, <3>1
    <3>3. summary[s] # EmptyHistory => LiveScore(s, n)' <= LiveScore(s, n)
      BY <1>6, <2>4, DefaultedFalls
    <3> QED
      BY <3>1, <3>2, <3>3 DEF ScoreFollows
  <2> QED
    BY <2>3, <2>4
<1>7. ASSUME NEW x \in Subjects, NEW a \in BOOLEAN, NEW b \in BOOLEAN,
             NEW c \in BOOLEAN, RecordTransaction(x, a, b, c)
      PROVE  ScoreFollows(s, n)
  <2>1. summary' = summary /\ now' = now
    BY <1>7 DEF RecordTransaction, paymentVars
  <2>2. CASE x # s
    <3>1. metrics'[s] = metrics[s]
      BY <1>7, <2>2 DEF RecordTransaction, TypeOK
    <3> QED
      BY <1>2, <1>3, <2>1, <3>1
  <2>3. CASE x = s
    <3>1. PaymentSubscore(summary'[s]) >= PaymentSubscore(summary[s])
      <4>1. PaymentSubscore(summary[s]) \in SubScores
        BY PaymentInRange DEF TypeOK
      <4>2. \A p \in SubScores : p >= p
        BY DEF SubScores
      <4> QED
        BY <2>1, <4>1, <4>2
    <3>2. MetricsGrow(s)
      BY <1>7, <2>3, MetricsGrowWithTransactions
    <3>3. LiveScore(s, n)' >= LiveScore(s, n)
      BY <3>1, <3>2, LiveScoreRises
    <3> QED
      BY <2>1, <3>3 DEF ScoreFollows
  <2> QED
    BY <2>2, <2>3
<1>8. ASSUME NEW x \in Subjects, NEW k \in CredentialCounts, ComputeScore(x, k)
      PROVE  ScoreFollows(s, n)
  BY <1>2, <1>3, <1>8 DEF ComputeScore, paymentVars
<1> QED
  BY <1>4, <1>5, <1>6, <1>7, <1>8 DEF Next

\* The same for the steps of the specification.
LEMMA StepLiveScore ==
  ASSUME TypeOK, TypeOK', SummaryMatchesEvents, SummaryMatchesEvents',
         [Next]_vars
  PROVE  /\ [\A s \in Subjects, n \in CredentialCounts :
               /\ summary'[s].late_repayments = summary[s].late_repayments
               /\ summary'[s].total_defaults = summary[s].total_defaults
               => LiveScore(s, n)' >= LiveScore(s, n)]_vars
         /\ [\A s \in Subjects, n \in CredentialCounts :
               \/ summary'[s].late_repayments > summary[s].late_repayments
               \/ /\ summary'[s].total_defaults > summary[s].total_defaults
                  /\ summary[s] # EmptyHistory
               => LiveScore(s, n)' <= LiveScore(s, n)]_vars
<1>1. CASE UNCHANGED vars
  BY <1>1
<1>2. CASE Next
  <2>1. ASSUME NEW s \in Subjects, NEW n \in CredentialCounts
        PROVE  ScoreFollows(s, n)
    BY <1>2, NextLiveScore, InputsAssumption
  <2>2. ASSUME NEW s \in Subjects
        PROVE  /\ summary'[s].late_repayments > summary[s].late_repayments
                    => summary'[s].late_repayments # summary[s].late_repayments
               /\ summary'[s].total_defaults > summary[s].total_defaults
                    => summary'[s].total_defaults # summary[s].total_defaults
    <3>1. /\ summary[s].late_repayments \in Nat
          /\ summary[s].total_defaults \in Nat
      <4>1. Counted(summary[s])
        BY SummaryCounts
      <4> QED
        BY <4>1 DEF Counted
    <3> QED
      BY <3>1
  <2> QED
    BY <2>1, <2>2 DEF ScoreFollows
<1> QED
  BY <1>1, <1>2

\* Whatever a subject does but repay late or default, and however much time
\* passes, the score that would be computed never falls.
THEOREM ActivityHelps == Spec => ActivityNeverHurts
<1>1. TypeOK /\ TypeOK' /\ SummaryMatchesEvents /\ SummaryMatchesEvents'
        /\ [Next]_vars =>
      [\A s \in Subjects, n \in CredentialCounts :
         /\ summary'[s].late_repayments = summary[s].late_repayments
         /\ summary'[s].total_defaults = summary[s].total_defaults
         => LiveScore(s, n)' >= LiveScore(s, n)]_vars
  BY StepLiveScore
<1> QED
  BY TypeCorrect, SummaryKept, <1>1, PTL DEF Spec, ActivityNeverHurts

\* A late repayment never raises it, and neither does a default of a subject
\* with a payment history.
THEOREM SetbacksHurt == Spec => SetbacksNeverHelp
<1>1. TypeOK /\ TypeOK' /\ SummaryMatchesEvents /\ SummaryMatchesEvents'
        /\ [Next]_vars =>
      [\A s \in Subjects, n \in CredentialCounts :
         \/ summary'[s].late_repayments > summary[s].late_repayments
         \/ /\ summary'[s].total_defaults > summary[s].total_defaults
            /\ summary[s] # EmptyHistory
         => LiveScore(s, n)' <= LiveScore(s, n)]_vars
  BY StepLiveScore
<1> QED
  BY TypeCorrect, SummaryKept, <1>1, PTL DEF Spec, SetbacksNeverHelp

=============================================================================
