\* Two contracts sharing one cursor.
SPECIFICATION Spec
CONSTANTS
  Owners = {o1}
  Credentials = {k1}
  Issuers = {i1}
  Contracts <- IdentityAndScore
  Now = Now
  Poller = Poller
  PageLimit = 2
  Streaming = FALSE
  Faulty = {}
  MaxEvents = 3
  MaxRestarts = 0
INVARIANTS NothingSkipped
