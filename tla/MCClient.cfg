SPECIFICATION FairSpec
CONSTANTS
  x1 = x1
  x2 = x2
  w1 = w1
  i1 = i1
  g1 = g1
  mx = mx
  mz = mz
  mi = mi
  X = X
  W = W
  Z = Z
  I = I
  Receivers = {x1, x2, w1, i1, g1}
  Disconnects = {d1}
  Sends = {}
  Messages = {mx, mz}
  Methods = {X, W, Z}
  Inputs = {I}
  Target <- MCTarget
  MaxCalls = 3
  MaxFaults = 1
  None = None
INVARIANTS
  ClientInv
  EnablesFirst
  WaitsWhereRouted
PROPERTIES
  TargetedIsFound
  ClearedOnDisconnect
  MessagesArrive
CHECK_DEADLOCK FALSE
