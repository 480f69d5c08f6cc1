SPECIFICATION Spec
CONSTANTS
  Requests = {r1}
  Nobody = Nobody
  Versions = {v1}
  FirstVersion = v1
  NoVersion = NoVersion
  MaxUnits = 3
  Traced = {r1}
INVARIANTS
  RequestFresh
CHECK_DEADLOCK FALSE
