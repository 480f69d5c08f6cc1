SPECIFICATION FairSpec
CONSTANTS
  Requests = {r1, r2}
  Nobody = Nobody
  Versions = {v1, v2}
  FirstVersion = v1
  NoVersion = NoVersion
  MaxUnits = 3
  Traced = {}
INVARIANTS
  FrameIsDecodable
  OneFramePerRequest
  NoMissedUpdate
  SaveIsAtomic
PROPERTIES
  FailureReachesWaiter
CHECK_DEADLOCK FALSE
