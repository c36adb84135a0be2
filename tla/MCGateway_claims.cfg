\* Claims the code does not keep: each of these is violated.  TLC reports the
\* first it meets; to see another, keep its line alone.
SPECIFICATION GatewaySpec
CONSTANTS
  Accounts = {a}
  Server = server
  Served = {"health", "read", "write", "login"}
  Limit <- SmallLimits
  Window = 2
  Timeout = 1
  Expiry = 2
  MaxTime = 2
  MaxRequests = 7
  MaxChallenges = 1
CONSTRAINT LimitsOrLogin
INVARIANT RefusedOnlyBeyondMax
PROPERTY CountersSurvive
PROPERTY SignedChallengeIsAccepted
\* With Served = {"health"}:
\* INVARIANT HealthIsNotLimited
\* With Served = {"read"}:
\* INVARIANT ReadsAreLooser
\* The clock and the requests are bounded.
CHECK_DEADLOCK FALSE
