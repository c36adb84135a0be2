\* Claims the code does not keep: each of these is violated.  TLC reports the
\* first it meets; to see another, keep its line alone.
SPECIFICATION FairSpec
CONSTANTS
  Clients = {c1}
  Types = {kyc}
  Scores = {500, 700}
  Required = {0, 600}
  ReportLength = 1
  MaxSnapshots = 1
PROPERTY ApprovedCredentialsAreActive
PROPERTY ChainCredentialsAreFound
PROPERTY ReportIsFull
INVARIANT RequiredScoreIsOptional
PROPERTY AnsweredWithoutRedis
