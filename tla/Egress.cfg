CONSTANTS
  c1 = c1
  c2 = c2
  c3 = c3
  k = k
  r1 = r1
  r2 = r2
  Call = {c1, c2, c3}
  Key = {k}
  Run = {r1, r2}
  KeyOf <- OneKey
  RunOf <- TwoRuns
  MaxAttempts = 2
  MaxQueueAttempts = 1
  MaxStops = 1
  MaxFaults = 1
SPECIFICATION Spec
SYMMETRY Symmetric
INVARIANTS
  RecordAndAnswersAreTrue
  StopReachesCalls
  GivenUpIsParked
CHECK_DEADLOCK FALSE
