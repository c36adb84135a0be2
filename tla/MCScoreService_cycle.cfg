\* The worker's batches over three addresses.
SPECIFICATION Spec
CONSTANTS
  Addresses = {a1, a2, a3}
  Clients = {}
  Updater = Updater
  BatchSize = 2
  MaxVersion = 1
SYMMETRY AddressSymmetry
INVARIANTS CycleAccounts
