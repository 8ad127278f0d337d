CONSTANTS
  p1 = p1
  p2 = p2
  a = a
  b = b
  c = c
  f = f
  g = g
  ua = ua
  ub = ub
  Nil = Nil
  Process = {p1, p2}
  Step = {a, b, c, ua, ub}
  First = a
  Kind <- LineKind
  Rank <- LineRank
  After <- LineAfter
  Heads <- LineHeads
  Undo <- LineUndo
  MaxAttempts <- LineRetries
  Fallible = {c}
  MaxMishaps = 1
  MaxCancels = 1
SPECIFICATION Spec
SYMMETRY Symmetric
INVARIANTS
  ForwardEffectAtMostOnce
  RecordTellsTheTruth
  UndoneInReverse
CHECK_DEADLOCK FALSE
