\* Claims the code does not keep: each of these is violated.  TLC reports the
\* first it meets; to see another, keep its line alone.
SPECIFICATION Spec
CONSTANTS
  Owners = {o1}
  Issuers = {i1}
  Others = {}
  Types = {t1}
  Nobody = Nobody
  Slots = {s1, s2}
  Faulty = {}
  Moments = {m1, m2}
  ByContract = ByContract
PROPERTY DuplicatesConflict
PROPERTY RevokedOnce
INVARIANT InvalidInputIs400
CHECK_DEADLOCK FALSE
