SPECIFICATION Spec
CONSTANTS
  Request = {r1, r2}
  Config = {c1, c2}
  Slot = {s1, s2, s3}
  NoConfig = NoConfig
  NoProc = NoProc
  NoRequest = NoRequest
PROPERTY GrantedServerWasReady
CHECK_DEADLOCK FALSE
