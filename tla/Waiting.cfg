CONSTANTS
  Last = 5
  Start = {1}
  Kind <- LineKind
  NextOf <- LineNext
  OnTimeout <- LineTimeouts
  Worker = {w1, w2}
  Completion = {p1, p2}
  Signal = {g}
  MaxMishaps = 1
SPECIFICATION FairSpec
INVARIANTS
  OneCompletionPerTask
  RecordBacksHistory
PROPERTIES
  LeftOnce
  TimersFire
CHECK_DEADLOCK FALSE
