SPECIFICATION Spec
CONSTANTS
  c1 = c1
  c2 = c2
  k1 = k1
  p1 = p1
  p2 = p2
  Conn = Conn
  None = None
  Callers = {c1}
  Closers = {}
  Positions = {p1}
  Reports <- KeyReports
  SendDepth = 1
  PrioDepth = 1
  MaxBuffered = 3
  Reserve = 2
  Attempts = 1
  Faults = {}
  MaxGen = 1
  MaxCalls = 2
PROPERTIES
  StaleMeansDropped
CHECK_DEADLOCK FALSE
