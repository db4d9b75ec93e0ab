SPECIFICATION EventBusSpec
CONSTANTS
  Clients = {c1, c2}
  Requests = {r1}
  None = None
INVARIANTS EventBusTypeOK
PROPERTIES AtMostOnce UndisturbedReachesAll OnlyDeadRemoved StateIsShown
CHECK_DEADLOCK FALSE
