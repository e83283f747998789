SPECIFICATION Spec
CONSTANTS
  UserOps = {o1, o2}
  UserKinds <- SendKinds
  NoOp = NoOp
  MaxFaults = 0
INVARIANT
  SendOpensConnection
CHECK_DEADLOCK FALSE
