\* A cursor that cannot be read.
SPECIFICATION Spec
CONSTANTS
  Owners = {o1}
  Credentials = {k1}
  Issuers = {i1}
  Contracts <- IdentityOnly
  Now = Now
  Poller = Poller
  PageLimit = 2
  Streaming = FALSE
  Faulty = {"redis"}
  MaxEvents = 3
  MaxRestarts = 0
INVARIANTS NothingSkipped
