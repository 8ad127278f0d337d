CONSTANTS
  Call = {c1, c2}
  Key = {k1, k2}
  Approval = {p1, p2}
  Quiet = {}
  Window = 1
  Cap = 1
  Listing <- FromOne
  MaxTime = 1
  MaxEvents = 2
  MaxFaults = 1
SPECIFICATION Spec
SYMMETRY Symmetric
INVARIANTS
  OneMessagePerKey
  DeliverableMeansEvidenced
  ApprovalSendsOneMessage
  OptOutStops
  RefusalsAreRecorded
CHECK_DEADLOCK FALSE
