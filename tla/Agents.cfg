SPECIFICATION Spec
CONSTANTS
  a = a
  b = b
  rep = rep
  Agent = {a, b}
  Enrolled = {a}
  Live = {run}
  Report = {rep}
  By <- ByTheFirst
  Callers = 2
  Sweeper = sw
  SeatCap = 2
  Expires <- FirstExpires
  Threshold = 1
  Window = 2
  Reclaim = 0
  Ceiling = 1
  Total = 1
  Ttl = 1
  MaxTime = 2
  MaxEvents = 3
INVARIANTS
  SeatsCoverRoster
  RecordFollowsRun
  MeterFollowsRecord
PROPERTIES
  StopReachesAgents
  SilentRunsEnd
CHECK_DEADLOCK FALSE
