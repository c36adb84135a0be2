\* Claims the code does not keep: each of these is violated.  TLC reports the
\* first it meets; to see another, keep its line alone.
SPECIFICATION Spec
CONSTANTS
  Owners = {o1}
  Credentials = {k1}
  Issuers = {i1}
  Contracts <- All
  Now = Now
  Poller = Poller
  PageLimit = 2
  Streaming = TRUE
  Faulty = {}
  MaxEvents = 2
  MaxRestarts = 1
INVARIANT IssuerMirrored
INVARIANT OneSnapshotPerEvent
INVARIANT RevokedIsMarked
