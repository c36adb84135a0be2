---------------------------- MODULE CreditScore ----------------------------
(***************************************************************************)
(* The credit-score contract (src/contracts/credit-score): the payment     *)
(* events and metrics recorded about each subject, the score computed from *)
(* them, and the bounded history of scores.                                *)
(*                                                                         *)
(* An invocation is atomic.  Each of them is open to any account that      *)
(* authorises it (compute_score to any account at all), so callers are not *)
(* parameters.  Amounts, assets and the two cumulated flows are stored and *)
(* never read; they are left out.                                          *)
(***************************************************************************)
EXTENDS Scoring

CONSTANTS
  Subjects,          \* accounts that are scored
  CredentialCounts,  \* values a caller passes to compute_score
  TimeSteps,         \* by how many seconds the ledger clock may advance
  NoMetrics,         \* no SubjectMetrics is stored
  NoScore,           \* no CreditScore is stored
  MaxScoreHistory,   \* MAX_SCORE_HISTORY
  MaxEvents,         \* bound: events per list (the host limits an entry's size)
  MaxTransactions,   \* bound: transactions recorded per subject
  MaxTime            \* bound: the last timestamp explored

RepaymentEvent == [on_time : BOOLEAN, recorded_at : Nat]
DefaultEvent == [recorded_at : Nat]

PaymentHistory ==
  [total_repayments : Nat, on_time_repayments : Nat, late_repayments : Nat,
   total_defaults : Nat, last_on_time_at : Nat, last_default_at : Nat]

SubjectMetrics ==
  [transaction_count : Nat, account_created_at : Nat,
   distinct_asset_count : Nat, cross_border_tx_count : Nat,
   cross_border_corridors : Nat, credential_count : Nat]

CreditScoreRecord ==
  [score : SCORE_MIN..SCORE_MAX, components : ScoreComponents,
   last_updated : Nat, data_points : Nat]

ScoreSnapshot ==
  [score : SCORE_MIN..SCORE_MAX, components : ScoreComponents,
   snapshot_at : Nat]

ASSUME MaxScoreHistoryAssumption == MaxScoreHistory \in Nat \ {0}
ASSUME BoundsAssumption ==
  MaxEvents \in Nat /\ MaxTransactions \in Nat /\ MaxTime \in Nat
ASSUME InputsAssumption ==
  CredentialCounts \subseteq Nat /\ TimeSteps \subseteq Nat \ {0}
ASSUME AbsentAssumption ==
  NoMetrics \notin SubjectMetrics /\ NoScore \notin CreditScoreRecord

VARIABLES
  now,          \* env.ledger().timestamp()
  repayments,   \* Repayments(subject): RepaymentEvents, oldest first
  defaults,     \* Defaults(subject): DefaultEvents, oldest first
  summary,      \* Summary(subject): the PaymentHistory
  metrics,      \* Metrics(subject): SubjectMetrics, or NoMetrics
  score,        \* Score(subject): a CreditScoreRecord, or NoScore
  history       \* History(subject): ScoreSnapshots, oldest first

paymentVars == <<repayments, defaults, summary>>
scoreVars == <<score, history>>
vars == <<now, paymentVars, metrics, scoreVars>>

TypeOK ==
  /\ now \in Nat
  /\ repayments \in [Subjects -> Seq(RepaymentEvent)]
  /\ defaults \in [Subjects -> Seq(DefaultEvent)]
  /\ summary \in [Subjects -> PaymentHistory]
  /\ metrics \in [Subjects -> SubjectMetrics \cup {NoMetrics}]
  /\ score \in [Subjects -> CreditScoreRecord \cup {NoScore}]
  /\ history \in [Subjects -> Seq(ScoreSnapshot)]

EmptyHistory ==
  [total_repayments |-> 0, on_time_repayments |-> 0, late_repayments |-> 0,
   total_defaults |-> 0, last_on_time_at |-> 0, last_default_at |-> 0]

Init ==
  /\ now \in TimeSteps
  /\ repayments = [s \in Subjects |-> <<>>]
  /\ defaults = [s \in Subjects |-> <<>>]
  /\ summary = [s \in Subjects |-> EmptyHistory]
  /\ metrics = [s \in Subjects |-> NoMetrics]
  /\ score = [s \in Subjects |-> NoScore]
  /\ history = [s \in Subjects |-> <<>>]

-----------------------------------------------------------------------------
\* Definitions named X_Y are faulty variants of X, used to see that a property
\* notices the fault; nothing else refers to them.

(***************************************************************************)
(* What a computation reads.                                               *)
(***************************************************************************)

\* get_or_create_metrics: a fresh record is returned, not stored
MetricsOf(s) ==
  IF metrics[s] # NoMetrics THEN metrics[s]
  ELSE [transaction_count |-> 0, account_created_at |-> now,
        distinct_asset_count |-> 0, cross_border_tx_count |-> 0,
        cross_border_corridors |-> 0, credential_count |-> 0]

ComponentsOf(s, credentials) ==
  LET m == MetricsOf(s) IN
  [payment_history |-> PaymentSubscore(summary[s]),
   transaction_volume |-> Tier(VolumeTable, m.transaction_count),
   account_longevity |->
     Tier(LongevityTable, AgeInDays(m.account_created_at, now)),
   asset_diversity |-> Tier(DiversityTable, m.distinct_asset_count),
   cross_border_activity |-> Tier(CrossBorderTable, m.cross_border_tx_count),
   credential_completeness |-> Tier(CredentialsTable, credentials)]

DataPoints_NoDefaults(s) ==
  summary[s].total_repayments
    + MetricsOf(s).transaction_count + MetricsOf(s).cross_border_tx_count

DataPoints(s) ==
  summary[s].total_repayments + summary[s].total_defaults
    + MetricsOf(s).transaction_count + MetricsOf(s).cross_border_tx_count

-----------------------------------------------------------------------------
(***************************************************************************)
(* Invocations.                                                            *)
(***************************************************************************)

RecordRepayment_StampsLate(s, on_time) ==
  /\ Len(repayments[s]) < MaxEvents
  /\ repayments' = [repayments EXCEPT ![s] =
                      Append(@, [on_time |-> on_time, recorded_at |-> now])]
  /\ summary' = [summary EXCEPT ![s] =
       [@ EXCEPT !.total_repayments = @ + 1,
                 !.on_time_repayments = IF on_time THEN @ + 1 ELSE @,
                 !.late_repayments = IF on_time THEN @ ELSE @ + 1,
                 !.last_on_time_at = now]]
  /\ UNCHANGED <<now, defaults, metrics, scoreVars>>

RecordRepayment_LateIsOnTime(s, on_time) ==
  /\ Len(repayments[s]) < MaxEvents
  /\ repayments' = [repayments EXCEPT ![s] =
                      Append(@, [on_time |-> on_time, recorded_at |-> now])]
  /\ summary' = [summary EXCEPT ![s] =
       [@ EXCEPT !.total_repayments = @ + 1, !.on_time_repayments = @ + 1,
                 !.late_repayments = IF on_time THEN @ ELSE @ + 1,
                 !.last_on_time_at = now]]
  /\ UNCHANGED <<now, defaults, metrics, scoreVars>>

RecordRepayment(s, on_time) ==
  LET ph == summary[s] IN
  /\ Len(repayments[s]) < MaxEvents
  /\ repayments' = [repayments EXCEPT ![s] =
                      Append(@, [on_time |-> on_time, recorded_at |-> now])]
  /\ summary' = [summary EXCEPT ![s] =
       IF on_time
       THEN [ph EXCEPT !.total_repayments = @ + 1, !.on_time_repayments = @ + 1,
                       !.last_on_time_at = now]
       ELSE [ph EXCEPT !.total_repayments = @ + 1, !.late_repayments = @ + 1]]
  /\ UNCHANGED <<now, defaults, metrics, scoreVars>>

RecordDefault(s) ==
  LET ph == summary[s] IN
  /\ Len(defaults[s]) < MaxEvents
  /\ defaults' = [defaults EXCEPT ![s] = Append(@, [recorded_at |-> now])]
  /\ summary' = [summary EXCEPT ![s] =
       [ph EXCEPT !.total_defaults = @ + 1, !.last_default_at = now]]
  /\ UNCHANGED <<now, repayments, metrics, scoreVars>>

RecordTransaction_CorridorAlone(s, new_asset, cross_border, new_corridor) ==
  LET m == MetricsOf(s) IN
  /\ m.transaction_count < MaxTransactions
  /\ metrics' = [metrics EXCEPT ![s] =
       [m EXCEPT !.transaction_count = @ + 1,
                 !.distinct_asset_count = IF new_asset THEN @ + 1 ELSE @,
                 !.cross_border_tx_count = IF cross_border THEN @ + 1 ELSE @,
                 !.cross_border_corridors = IF new_corridor THEN @ + 1 ELSE @]]
  /\ UNCHANGED <<now, paymentVars, scoreVars>>

RecordTransaction_ResetsAge(s, new_asset, cross_border, new_corridor) ==
  LET m == MetricsOf(s) IN
  /\ m.transaction_count < MaxTransactions
  /\ metrics' = [metrics EXCEPT ![s] =
       [m EXCEPT !.transaction_count = @ + 1,
                 !.account_created_at = now,
                 !.distinct_asset_count = IF new_asset THEN @ + 1 ELSE @,
                 !.cross_border_tx_count = IF cross_border THEN @ + 1 ELSE @,
                 !.cross_border_corridors =
                   IF cross_border /\ new_corridor THEN @ + 1 ELSE @]]
  /\ UNCHANGED <<now, paymentVars, scoreVars>>

\* A new corridor counts only on a cross-border payment.
RecordTransaction(s, new_asset, cross_border, new_corridor) ==
  LET m == MetricsOf(s) IN
  /\ m.transaction_count < MaxTransactions
  /\ metrics' = [metrics EXCEPT ![s] =
       [m EXCEPT !.transaction_count = @ + 1,
                 !.distinct_asset_count = IF new_asset THEN @ + 1 ELSE @,
                 !.cross_border_tx_count = IF cross_border THEN @ + 1 ELSE @,
                 !.cross_border_corridors =
                   IF cross_border /\ new_corridor THEN @ + 1 ELSE @]]
  /\ UNCHANGED <<now, paymentVars, scoreVars>>

Remember_KeepsOldest(snapshots, snapshot) ==
  IF Len(snapshots) >= MaxScoreHistory THEN snapshots
  ELSE Append(snapshots, snapshot)

\* The oldest snapshot makes room for the new one when the history is full.
Remember(snapshots, snapshot) ==
  Append(IF Len(snapshots) >= MaxScoreHistory THEN Tail(snapshots)
         ELSE snapshots, snapshot)

\* The metrics that are read (and given the credential count) are not stored.
ComputeScore(s, credentials) ==
  LET components == ComponentsOf(s, credentials)
      composite == Composite(components)
  IN /\ score' = [score EXCEPT ![s] =
           [score |-> composite, components |-> components,
            last_updated |-> now, data_points |-> DataPoints(s)]]
     /\ history' = [history EXCEPT ![s] = Remember(@,
           [score |-> composite, components |-> components,
            snapshot_at |-> now])]
     /\ UNCHANGED <<now, paymentVars, metrics>>

\* get_score_history: the last "limit" snapshots, oldest first
ScoreHistory(s, limit) ==
  LET total == Len(history[s])
      start == IF total > limit THEN total - limit ELSE 0
  IN IF limit = 0 THEN <<>> ELSE SubSeq(history[s], start + 1, total)

Tick(d) ==
  /\ now + d <= MaxTime
  /\ now' = now + d
  /\ UNCHANGED <<paymentVars, metrics, scoreVars>>

Next ==
  \/ \E d \in TimeSteps : Tick(d)
  \/ \E s \in Subjects :
       \/ \E on_time \in BOOLEAN : RecordRepayment(s, on_time)
       \/ RecordDefault(s)
       \/ \E new_asset, cross_border, new_corridor \in BOOLEAN :
            RecordTransaction(s, new_asset, cross_border, new_corridor)
       \/ \E n \in CredentialCounts : ComputeScore(s, n)

Spec == Init /\ [][Next]_vars

-----------------------------------------------------------------------------
(***************************************************************************)
(* Safety.                                                                 *)
(***************************************************************************)

\* The aggregated PaymentHistory, the only thing a computation reads, agrees
\* with the two lists of raw events it summarises.
SummaryMatchesEvents ==
  \A s \in Subjects :
    LET events == repayments[s]
        onTime == {k \in DOMAIN events : events[k].on_time}
        ph == summary[s]
    IN /\ ph.total_repayments = Len(events)
       /\ ph.on_time_repayments = Cardinality(onTime)
       /\ ph.late_repayments = Len(events) - Cardinality(onTime)
       /\ ph.total_defaults = Len(defaults[s])
       /\ IF onTime = {} THEN ph.last_on_time_at = 0
          ELSE \E k \in onTime : /\ \A j \in onTime : j <= k
                                /\ ph.last_on_time_at = events[k].recorded_at
       /\ ph.last_default_at =
            IF defaults[s] = <<>> THEN 0
            ELSE defaults[s][Len(defaults[s])].recorded_at

\* The counters of a subject's metrics stay in the relation their meaning
\* requires: no more corridors than cross-border payments, no more assets or
\* cross-border payments than transactions, and an age that is not negative.
MetricsConsistent ==
  \A s \in Subjects : metrics[s] # NoMetrics =>
    LET m == metrics[s] IN
    /\ m.cross_border_corridors <= m.cross_border_tx_count
    /\ m.cross_border_tx_count <= m.transaction_count
    /\ m.distinct_asset_count <= m.transaction_count
    /\ 0 < m.transaction_count
    /\ m.account_created_at <= now

\* get_score and the end of get_score_history never disagree: a subject has a
\* score exactly when it has a history, and the score is the newest snapshot.
ScoreIsLastSnapshot ==
  \A s \in Subjects :
    /\ score[s] = NoScore <=> history[s] = <<>>
    /\ score[s] # NoScore =>
         history[s][Len(history[s])] =
           [score |-> score[s].score, components |-> score[s].components,
            snapshot_at |-> score[s].last_updated]

\* The history is bounded, in chronological order, and never ahead of the
\* ledger, also after the oldest snapshots have been dropped.
HistoryOrdered ==
  \A s \in Subjects :
    /\ Len(history[s]) <= MaxScoreHistory
    /\ \A k \in DOMAIN history[s] :
         /\ history[s][k].snapshot_at <= now
         /\ \A j \in 1..k :
              history[s][j].snapshot_at <= history[s][k].snapshot_at

\* get_score_history returns as many snapshots as asked for and available,
\* oldest first, and any non-empty answer ends with the current score.
HistoryQueriesAgree ==
  \A s \in Subjects, limit \in 0..(MaxScoreHistory + 1) :
    LET answer == ScoreHistory(s, limit) IN
    /\ Len(answer) = Least(limit, Len(history[s]))
    /\ \A k \in DOMAIN answer :
         answer[k] = history[s][Len(history[s]) - Len(answer) + k]
    /\ answer # <<>> =>
         /\ score[s] # NoScore
         /\ answer[Len(answer)].score = score[s].score

\* The current score, the bounded history and the queries on it agree, however
\* many snapshots have been dropped.
HistoryAgrees == ScoreIsLastSnapshot /\ HistoryOrdered /\ HistoryQueriesAgree

\* data_points tells a stale score from a current one: it never exceeds what
\* has been recorded, and while it equals it, the four components that depend
\* on recorded events are those a new computation would produce.
FreshUnlessNewData ==
  \A s \in Subjects : score[s] # NoScore =>
    LET old == score[s].components
        new == ComponentsOf(s, 0)
    IN /\ score[s].data_points <= DataPoints(s)
       /\ score[s].data_points = DataPoints(s) =>
            /\ old.payment_history = new.payment_history
            /\ old.transaction_volume = new.transaction_volume
            /\ old.asset_diversity = new.asset_diversity
            /\ old.cross_border_activity = new.cross_border_activity

-----------------------------------------------------------------------------
(***************************************************************************)
(* What a step may never do.                                               *)
(***************************************************************************)

\* the score a computation would give now
LiveScore(s, credentials) == Composite(ComponentsOf(s, credentials))

\* Nothing but a late repayment or a default ever lowers the score a subject
\* would be given: repaying on time, transacting, letting time pass, or being
\* scored, for every number of credentials.
ActivityNeverHurts ==
  [][\A s \in Subjects, n \in CredentialCounts :
       /\ summary'[s].late_repayments = summary[s].late_repayments
       /\ summary'[s].total_defaults = summary[s].total_defaults
       => LiveScore(s, n)' >= LiveScore(s, n)]_vars

\* A late repayment never raises the score, and neither does a default of a
\* subject that already has a payment history.
SetbacksNeverHelp ==
  [][\A s \in Subjects, n \in CredentialCounts :
       \/ summary'[s].late_repayments > summary[s].late_repayments
       \/ /\ summary'[s].total_defaults > summary[s].total_defaults
          /\ summary[s] # EmptyHistory
       => LiveScore(s, n)' <= LiveScore(s, n)]_vars

-----------------------------------------------------------------------------
(***************************************************************************)
(* Claims of the documentation and comments the code does not keep.        *)
(***************************************************************************)

\* "Penalise each default by 150 points" (score.rs:131): a default never
\* raises the payment history sub-score.
DefaultNeverHelps ==
  [][\A s \in Subjects :
       summary'[s].total_defaults > summary[s].total_defaults =>
         PaymentSubscore(summary'[s]) <= PaymentSubscore(summary[s])]_vars

\* "Penalise each late payment by 30 points (capped at -300)" (score.rs:132).
LatePaymentsPenalised ==
  \A s \in Subjects :
    summary[s].total_repayments > 0 =>
      PaymentSubscore(summary[s])
        <= 900 - Least(30 * summary[s].late_repayments, 300)

\* account_created_at is "Set on first `compute_score`" (metrics.rs:50): a
\* subject that has been scored has metrics that date it.
ScoringDatesTheAccount ==
  \A s \in Subjects : score[s] # NoScore => metrics[s] # NoMetrics

\* credential_count is the number of credentials "at last score computation"
\* (metrics.rs:66-67): the stored count gives the component of the score.
CredentialCountKept ==
  \A s \in Subjects :
    score[s] # NoScore /\ metrics[s] # NoMetrics =>
      score[s].components.credential_completeness =
        Tier(CredentialsTable, metrics[s].credential_count)

=============================================================================
