\* Claims the code does not keep: each of these is violated.  TLC reports the
\* first it meets; to see another, keep its line alone.
SPECIFICATION FairSpec
CONSTANTS
  MaxConnections = 1
  MaxShutdowns = 1
PROPERTY ComesUpWithoutRedis
INVARIANT ErrorsAreReported
INVARIANT JobsAreOver
\* The process ends.
CHECK_DEADLOCK FALSE
