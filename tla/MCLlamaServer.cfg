SPECIFICATION FairSpec
CONSTANTS
  Request = {r1, r2}
  Config = {c1, c2}
  Slot = {s1, s2, s3}
  NoConfig = NoConfig
  NoProc = NoProc
  NoRequest = NoRequest
INVARIANTS
  ServerInv
  NoServerAfterShutdown
PROPERTIES
  OneModelAtATime
  PromiseKept
  EveryRequestEnds
CHECK_DEADLOCK FALSE
