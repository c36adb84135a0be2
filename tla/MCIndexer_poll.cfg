\* Polling one contract through crashes and failed calls.
SPECIFICATION FairSpec
CONSTANTS
  Owners = {o1}
  Credentials = {k1}
  Issuers = {i1}
  Contracts <- IdentityOnly
  Now = Now
  Poller = Poller
  PageLimit = 2
  Streaming = FALSE
  Faulty = {"postgres", "horizon"}
  MaxEvents = 3
  MaxRestarts = 1
INVARIANTS NothingSkipped EffectsRecorded
PROPERTIES PollingCatchesUp
