SPECIFICATION FairSpec
CONSTANTS
  Calls = {g1, g2, p1}
  Gets = {g1, g2}
  Rids = {i1, i2, i3}
  MaxFaults = 1
  None = None
INVARIANTS
  TwinInv
  OwnAnswer
  NotForgotten
PROPERTIES
  ImplementsExchange
  RequestsEnd
CHECK_DEADLOCK FALSE
