SPECIFICATION FairSpec
CONSTANTS
  NodeId = {n1, n2}
  Addr = {a1}
  Rpc = {TRUE}
  Hardware = {FALSE}
  HEALTH_FAIL_THRESHOLD = 3
  HEARTBEAT_TIMEOUT = 1
  Absent = Absent
  NoProbe = NoProbe
INVARIANT RegistryInv
PROPERTIES
  LeavesOnlyWhenDownOrSilent
  EveryNodeProbed
