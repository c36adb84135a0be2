\* Payment events against the summary, and scores, their bounded history and the
\* queries on it, while transactions are recorded and months pass.
SPECIFICATION Spec
CONSTANTS
  Subjects = {s1}
  CredentialCounts = {2}
  TimeSteps <- Month
  NoMetrics = NoMetrics
  NoScore = NoScore
  MaxScoreHistory = 2
  MaxEvents = 4
  MaxTransactions = 2
  MaxTime = 5184000
CONSTRAINT Focused
INVARIANTS SummaryMatchesEvents HistoryAgrees FreshUnlessNewData MetricsConsistent
PROPERTIES ActivityNeverHurts SetbacksNeverHelp
