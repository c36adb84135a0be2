\* Two requests at a time, the indexer, and a database that fails.
SPECIFICATION Spec
CONSTANTS
  Owners = {o1}
  Issuers = {i1}
  Others = {x1}
  Types = {t1}
  Nobody = Nobody
  Slots = {s1, s2}
  Faulty = {"postgres"}
  Moments = {m1, m2}
  ByContract = ByContract
SYMMETRY Symmetry
INVARIANTS AnswersHold CreatedOnce ServerErrorsExplained
PROPERTIES NotFoundIsTrue AttestedByTrusted
