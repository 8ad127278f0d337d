CONSTANTS
  p1 = p1
  c1 = c1
  c2 = c2
  r1 = r1
  Proc = {p1}
  Caller = {c1, c2}
  Home <- OneHome
  Run = {r1}
  Origin <- OneOrigin
  Day = day
  Limit <- OneEach
  MaxCost = 2
  WallClock = 0
  Minute = 1
  PerMinute = 1
  Scopes <- GlobalOnly
  Ttl = 1
  Approval = {a}
  MaxCalls = 3
  MaxTime = 1
  MaxLevers = 1
  MaxFaults = 1
SPECIFICATION Spec
SYMMETRY Symmetric
INVARIANTS
  SpendIsBounded
  HeadroomIsHeld
  EngagedSwitchStops
PROPERTIES
  RefusalsAreFree
CHECK_DEADLOCK FALSE
