\* Claims the code does not keep: each of these is violated.  TLC reports the
\* first it meets; to see another, keep its line alone.
SPECIFICATION Spec
CONSTANTS
  Subjects = {s1}
  CredentialCounts = {1}
  TimeSteps <- Second
  NoMetrics = NoMetrics
  NoScore = NoScore
  MaxScoreHistory = 1
  MaxEvents = 16
  MaxTransactions = 1
  MaxTime = 1
INVARIANT ScoringDatesTheAccount
INVARIANT CredentialCountKept
PROPERTY DefaultNeverHelps
INVARIANT LatePaymentsPenalised
CHECK_DEADLOCK FALSE
