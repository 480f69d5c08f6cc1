SPECIFICATION FairSpec
CONSTANTS
  Calls = {s1, q1}
  Scrolls = {s1}
  NoCall = NoCall
  Operator = Operator
  RpcBuffered = 1
  RpcFaults = {"send", "close"}
  PeerAnswers = {"error", "event", "twice", "bad"}
  LeaseTimeout = 2
INVARIANTS
  UnambiguousIsSettled
  PumpNeverBlocks
  WaiterIsReachable
  NoWheelUnderOthers
  ScrollIsTruthful
PROPERTIES
  CallsEndWithChannel
  ScrollEnds
CHECK_DEADLOCK FALSE
