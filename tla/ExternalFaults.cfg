CONSTANTS
  k1 = k1
  ParkedId = {k1}
  Rank <- OneRank
  Commit = {c1, c2}
  Agent = {ann}
  Payload = {x}
  Ttl = 1
  StaleAfter = 1
  LedgerAge = 0
  MaxTime = 2
  MaxFaults = 1
  MaxCrashes = 1
  MaxStops = 1
SPECIFICATION FairSpec
INVARIANTS
  EffectAtMostOnce
PROPERTIES
  EveryCommitSettles
CHECK_DEADLOCK FALSE
