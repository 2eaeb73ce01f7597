CONSTANTS
  Procs = {p1, p2, p3}
  Keys <- MCKeys
  PanicKeys <- MCPanicKeys
  Outcomes <- MCOutcomes
  CallIds = {c1, c2, c3, c4}
  NoCall = NoCall
  NoKey = NoKey
  NoResult = NoResult
  good = good
  bad = bad
  v = v
  err = err
SPECIFICATION FairSpec
INVARIANTS TypeOK OneFlight FlightsHaveLeaders
PROPERTIES ReturnsOutcome DoReturns
\* Once fn has panicked for a key, every goroutine may end up waiting for it.
CHECK_DEADLOCK FALSE
