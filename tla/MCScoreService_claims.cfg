\* Claims the code does not keep: each of these is violated.  TLC reports the
\* first it meets; to see another, keep its line alone.
SPECIFICATION Spec
CONSTANTS
  Addresses = {a1}
  Clients = {c1}
  Updater = Updater
  BatchSize = 1
  MaxVersion = 2
INVARIANT JobsAskTheContract
INVARIANT InvalidationSticks
