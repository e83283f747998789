SPECIFICATION Spec
CONSTANTS
  UserOps = {o1, o2, o3, o4}
  UserKinds <- ConnectionOnly
  NoOp = NoOp
  MaxFaults = 2
SYMMETRY Symmetry
PROPERTY
  ConnectEstablishes
CHECK_DEADLOCK FALSE
