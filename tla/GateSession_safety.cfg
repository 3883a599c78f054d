SPECIFICATION GateSpec
CONSTANTS
  c1 = c1
  c2 = c2
  u1 = u1
  u2 = u2
  Conn = {c1, c2}
  Uid = {u1, u2}
  Pusher = {p1}
  Nobody = nobody
  MayLogin <- MCMayLogin
  Cap = 2
  MaxRequests = 4
  MaxPushes = 2
CHECK_DEADLOCK FALSE
INVARIANTS
  GateTypeOK
  OpenIsCurrent
  BindingIsWatched
PROPERTIES
  NobodyIsStuck
