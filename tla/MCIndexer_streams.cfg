\* All three contracts, streamed and polled concurrently.
SPECIFICATION Spec
CONSTANTS
  Owners = {o1}
  Credentials = {k1}
  Issuers = {i1}
  Contracts <- All
  Now = Now
  Poller = Poller
  PageLimit = 2
  Streaming = TRUE
  Faulty = {}
  MaxEvents = 3
  MaxRestarts = 0
PROPERTIES RevocationSticks
