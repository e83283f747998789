SPECIFICATION Spec
CONSTANTS
  UserOps = {o1, o2, o3}
  UserKinds <- AllKinds
  NoOp = NoOp
  MaxFaults = 1
SYMMETRY Symmetry
INVARIANTS
  OneConnectionOp
  HeldOnce
  OpenIsConnected
  PipelineInv
PROPERTIES
  ResultMatchesConnected
  ImplementsGate
CHECK_DEADLOCK FALSE
