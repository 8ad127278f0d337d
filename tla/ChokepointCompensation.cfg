CONSTANTS
  p1 = p1
  c1 = c1
  c2 = c2
  r1 = r1
  Proc = {p1}
  Caller = {c1}
  Home <- OneHome
  Run = {r1}
  Origin <- OneOrigin
  Day = day
  Limit <- OneEach
  MaxCost = 2
  WallClock = 0
  Minute = 1
  PerMinute = 1
  Scopes <- GlobalOnly
  Ttl = 1
  Approval = {a}
  MaxCalls = 1
  MaxTime = 1
  MaxLevers = 1
  MaxFaults = 0
SPECIFICATION Spec
PROPERTIES
  CompensationRunsUnderContainment
CHECK_DEADLOCK FALSE
