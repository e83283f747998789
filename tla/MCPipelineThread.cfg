SPECIFICATION FairSpec
CONSTANTS
  Callers = {t1, t2}
  Starters = {t1}
  MaxExecutors = 3
  MaxCalls = 2
  NoCall = NoCall
INVARIANTS ThreadInv OneAtATime WaitersServed
PROPERTY BlockingCallsReturn
CHECK_DEADLOCK FALSE
