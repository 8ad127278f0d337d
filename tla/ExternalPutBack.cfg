CONSTANTS
  k1 = k1
  ParkedId = {k1}
  Rank <- OneRank
  Commit = {c1}
  Agent = {ann}
  Payload = {x}
  Ttl = 1
  StaleAfter = 1
  LedgerAge = 0
  MaxTime = 3
  MaxFaults = 1
  MaxCrashes = 0
  MaxStops = 0
SPECIFICATION Spec
SYMMETRY Symmetric
INVARIANTS
  UntouchedMeansNothingDone
CHECK_DEADLOCK FALSE
