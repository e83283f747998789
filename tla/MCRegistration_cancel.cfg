SPECIFICATION FairSpec
CONSTANTS
  Registers = {r1}
  Cancels = {c1}
  MaxCalls = 2
  MaxAgain = 0
  MaxFaults = 0
  None = None
  CallbackThread = CallbackThread
PROPERTIES
  CancelEnds
CHECK_DEADLOCK FALSE
