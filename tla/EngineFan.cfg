CONSTANTS
  p1 = p1
  p2 = p2
  a = a
  b = b
  c = c
  f = f
  g = g
  ua = ua
  ub = ub
  Nil = Nil
  Process = {p1, p2}
  Step = {a, b, c, f, g, ua}
  First = f
  Kind <- FanKind
  Rank <- FanRank
  After <- FanAfter
  Heads <- FanHeads
  Undo <- FanUndo
  MaxAttempts <- FanRetries
  Fallible = {b}
  MaxMishaps = 1
  MaxCancels = 0
SPECIFICATION FairSpec
INVARIANTS
  JoinWaitsForEveryPath
PROPERTIES
  EveryInstanceEnds
CHECK_DEADLOCK FALSE
