SPECIFICATION FairSpec
CONSTANTS
  Local = {l1}
  NoCandidate = NoCandidate
  Remote = {m1, m2}
  Others = {"answer", "malformed"}
  MaxPending = 1
  MaxMessages = 3
  MaxUnread = 1
INVARIANTS
  LocalTrickle
  RemoteTrickle
PROPERTIES
  TrickleContinues
  ReturnsAlive
  ConnectEnds
  NothingLeaks
CHECK_DEADLOCK FALSE
