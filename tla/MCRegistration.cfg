SPECIFICATION FairSpec
CONSTANTS
  Registers = {r1, r2}
  Cancels = {c1}
  MaxCalls = 2
  MaxAgain = 1
  MaxFaults = 1
  None = None
  CallbackThread = CallbackThread
INVARIANTS
  RegistrationInv
  CalledOnce
  TimersStopped
PROPERTIES
  ReturnsDisconnected
  RegisterReturns
CHECK_DEADLOCK FALSE
