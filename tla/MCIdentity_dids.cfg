\* One owner.  Either two registries and two types: which source of trust
\* decides, and when it changes; or two issuers and two ledgers: the document
\* and the attestations about its owner.
SPECIFICATION Spec
CONSTANTS
  o1 = o1
  o2 = o2
  i1 = i1
  i2 = i2
  t1 = t1
  t2 = t2
  r1 = r1
  r2 = r2
  Owners = {o1}
  Issuers = {i1, i2}
  Accounts = {o1, i1, i2}
  Types = {t1, t2}
  AnyType = AnyType
  Registries = {r1, r2}
  Registrations <- OpenRegistrations
  SchemaIds = {s1}
  Hashes = {h1, h2}
  Claims = {c1}
  NoRecord = NoRecord
  NoDID = NoDID
  Unset = Unset
  MaxCredentials = 2
  MaxAttestations = 2
  MaxTime = 1
SYMMETRY HashSymmetry
CONSTRAINT Focused
INVARIANTS Chronology AnyScopeAgrees
PROPERTIES AttestationsAppendOnly ImplementsLedger RegistryDecides
