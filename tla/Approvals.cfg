CONSTANTS
  ApprovalId = {a1}
  Actor = {rita, ann, bob}
  DecideCall = {d1, d2}
  Execution = {e1, e2}
  Digest = {x, y}
  Action = {send}
  Unchecked = Unchecked
  StepUpAction = {send}
  MaxRequired = 2
  Ttl = 1
  MaxTime = 2
SPECIFICATION FairSpec
INVARIANTS
  GrantedByQuorum
  SingleUse
  RejectionIsDecisive
PROPERTIES
  ImplementsAuthority
  EveryRequestSettles
CHECK_DEADLOCK FALSE
