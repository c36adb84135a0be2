\* Claims the code does not keep: each of these is violated.  TLC reports the
\* first it meets; to see another, keep its line alone.
SPECIFICATION Spec
CONSTANTS
  Accounts = {a, b}
  None = none
  Instances = {"page", "button"}
  Partial = partial
  OnChain = {b}
  Pages = {"manage", "score"}
  MaxActs = 2
  MaxCreds = 2
PROPERTY ConnectingOpensPage
INVARIANTS LastAskedIsShown AdditionsAreShown
\* Once the user has done everything, nothing is left to do.
CHECK_DEADLOCK FALSE
