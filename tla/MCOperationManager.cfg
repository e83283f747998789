SPECIFICATION FairSpec
CONSTANTS
  Reqs = {r1, r2, r3, r4}
  Publishes = {r1, r2}
  NoReq = NoReq
  MaxMid = 3
  ReuseAbandoned = FALSE
INVARIANTS ManagerInv CallbackAfterAck CallbackOnce AckNotLost
PROPERTY AckedIsCalled
CHECK_DEADLOCK FALSE
