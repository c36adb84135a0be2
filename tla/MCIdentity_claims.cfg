\* Claims the code does not keep: each of these is violated.  TLC reports the
\* first it meets; to see another, keep its line alone.
SPECIFICATION Spec
CONSTANTS
  o1 = o1
  o2 = o2
  i1 = i1
  i2 = i2
  t1 = t1
  t2 = t2
  r1 = r1
  r2 = r2
  Owners = {o1}
  Issuers = {i1, i2}
  Accounts = {o1, i1, i2}
  Types = {t1}
  AnyType = AnyType
  Registries = {r1}
  Registrations <- FewRegistrations
  SchemaIds = {s1}
  Hashes = {h1, h2}
  Claims = {}
  NoRecord = NoRecord
  NoDID = NoDID
  Unset = Unset
  MaxCredentials = 2
  MaxAttestations = 0
  MaxTime = 0
INVARIANT OriginalIssuerCanRevoke
PROPERTY SchemaAuthorSigned
