\* A database that fails under a request with a token.
SPECIFICATION FairSpec
CONSTANTS
  Owners = {o1}
  Issuers = {i1}
  Others = {}
  Types = {t1}
  Nobody = Nobody
  Slots = {s1}
  Faulty = {"postgres"}
  Moments = {m1}
  ByContract = ByContract
PROPERTIES EveryRequestAnswered
CHECK_DEADLOCK FALSE
