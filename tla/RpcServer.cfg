CONSTANTS
  Reqs = {r1, r2, r3, r4}
  Invalid = {r4}
  Unencodable = {r3}
  Nobody = Nobody
SPECIFICATION Spec
INVARIANTS TypeOK OneResponse WholeResponses DoneMeansAnswered
PROPERTIES ReadMeansAnswered
\* The connection ends, and a worker whose request timed out stays blocked.
CHECK_DEADLOCK FALSE
