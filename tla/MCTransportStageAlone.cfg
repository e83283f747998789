SPECIFICATION AloneFairSpec
CONSTANTS
  UserOps = {o1, o2, o3}
  UserKinds <- MainKinds
  NoOp = NoOp
  MaxFaults = 1
INVARIANTS
  CancelledOnce
  AloneInv
PROPERTIES
  AloneOpsComplete
CHECK_DEADLOCK FALSE
