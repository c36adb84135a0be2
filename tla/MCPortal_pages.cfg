\* Pages that are opened one after the other while calls are under way.
SPECIFICATION FairSpec
CONSTANTS
  Accounts = {a, b}
  None = none
  Instances = {"page", "navbar"}
  Partial = partial
  OnChain = {b}
  Pages = {"dashboard", "create", "manage", "score", "lender"}
  MaxActs = 3
  MaxCreds = 2
CONSTRAINT Bounded
\* Once the user has done everything, nothing is left to do.
CHECK_DEADLOCK FALSE
INVARIANTS ScoreIsOfAddress AddedIsListed CreatedIsReal OneOutcome
PROPERTIES LoadingEnds
