\* Polling that never gets a first cursor.
SPECIFICATION FairSpec
CONSTANTS
  Owners = {o1}
  Credentials = {k1}
  Issuers = {i1}
  Contracts <- IdentityOnly
  Now = Now
  Poller = Poller
  PageLimit = 2
  Streaming = FALSE
  Faulty = {}
  MaxEvents = 1
  MaxRestarts = 0
PROPERTIES PollingIsBackstop
