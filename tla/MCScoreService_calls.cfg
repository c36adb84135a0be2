\* Concurrent calls for one address: a client of the API and the worker.
SPECIFICATION FairSpec
CONSTANTS
  Addresses = {a1}
  Clients = {c1}
  Updater = Updater
  BatchSize = 1
  MaxVersion = 2
INVARIANTS PublishedIsRecorded CycleAccounts
PROPERTIES CacheConverges SnapshotsFollow
