SPECIFICATION Spec
CONSTANTS
  c1 = c1
  c2 = c2
  k1 = k1
  p1 = p1
  p2 = p2
  Conn = Conn
  None = None
  Callers = {c1, c2}
  Closers = {}
  Positions = {p1}
  Reports <- KeyReports
  SendDepth = 1
  PrioDepth = 1
  MaxBuffered = 3
  Reserve = 2
  Attempts = 1
  Faults = {"send"}
  MaxGen = 3
  MaxCalls = 2
SYMMETRY Symmetry
INVARIANTS
  SlotOwnsGeneration
  SoleDrainWaiter
  HeldIsConservative
  VerifiedIsNeutral
PROPERTIES
  LeaseStartsNeutral
  DrainBarrierIsReal
  ImplementsControlLease
CHECK_DEADLOCK FALSE
