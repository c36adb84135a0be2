\* Claims the code does not keep: each of these is violated.  TLC reports the
\* first it meets; to see another, keep its line alone.
SPECIFICATION ListenerSpec
CONSTANTS
  Subscribed <- Two
  MaxAttempts = 2
  MaxErrors = 2
INVARIANT GivesUpOnlyAtTheLimit
INVARIANT OneStreamPerContract
INVARIANT GivenUpIsPolledOnly
\* After stop, and with every contract given up, nothing is left to do.
CHECK_DEADLOCK FALSE
