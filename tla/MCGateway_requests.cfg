\* The limits over two windows, and logins with the use of their tokens.
SPECIFICATION GatewaySpec
CONSTANTS
  Accounts = {a, b}
  Server = server
  Served = {"login", "read", "write", "attest"}
  Limit <- SmallLimits
  Window = 3
  Timeout = 1
  Expiry = 2
  MaxTime = 4
  MaxRequests = 5
  MaxChallenges = 1
\* The clock and the requests are bounded.
CHECK_DEADLOCK FALSE
CONSTRAINT LimitsOrLogin
INVARIANTS AccountIsProven LimitersBounded
