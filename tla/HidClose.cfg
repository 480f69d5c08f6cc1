SPECIFICATION Spec
CONSTANTS
  c1 = c1
  c2 = c2
  k1 = k1
  p1 = p1
  p2 = p2
  Conn = Conn
  None = None
  Callers = {c1}
  Closers = {k1}
  Positions = {p1, p2}
  Reports <- PointerReports
  SendDepth = 1
  PrioDepth = 1
  MaxBuffered = 3
  Reserve = 2
  Attempts = 2
  Faults = {"transport"}
  MaxGen = 1
  MaxCalls = 2
INVARIANTS
  HidInv
  NoLostWakeup
  NeutralKeepsPosition
  BufferBounded
PROPERTIES
  ClosedIsTerminal
CHECK_DEADLOCK FALSE
