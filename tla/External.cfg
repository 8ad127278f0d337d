CONSTANTS
  k1 = k1
  ParkedId = {k1}
  Rank <- OneRank
  Commit = {c1, c2}
  Agent = {ann, bea}
  Payload = {x, y}
  Ttl = 1
  StaleAfter = 1
  LedgerAge = 0
  MaxTime = 2
  MaxFaults = 0
  MaxCrashes = 1
  MaxStops = 1
SPECIFICATION Spec
SYMMETRY Symmetric
INVARIANTS
  EffectAsApproved
  UntouchedMeansNothingDone
  AnswersAgreeWithRecord
  StopReachesCommits
PROPERTIES
  ImplementsTruthfulWrite
  LedgerNeverForgets
CHECK_DEADLOCK FALSE
