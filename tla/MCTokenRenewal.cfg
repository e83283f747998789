SPECIFICATION Spec
CONSTANTS
  Setup = Setup
  Generates = {g1}
  Disconnects = {d1}
  Validity = 5
  Margin = 3
  MaxSign = 1
  MaxTimers = 4
  MaxTime = 9
  MaxFaults = 1
  None = None
INVARIANTS
  TokenInv
  TokenFresh
  OneTimer
CHECK_DEADLOCK FALSE
