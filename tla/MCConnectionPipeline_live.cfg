SPECIFICATION FairSpec
CONSTANTS
  UserOps = {o1, o2}
  UserKinds <- MainKinds
  NoOp = NoOp
  MaxFaults = 2
PROPERTIES
  ConnectionOpsComplete
  PublishConfirmed
CHECK_DEADLOCK FALSE
