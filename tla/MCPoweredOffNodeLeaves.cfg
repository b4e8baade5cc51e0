SPECIFICATION PolledClusterSpec
CONSTANTS
  NodeId = {n1}
  Addr = {a1}
  Rpc = {TRUE, FALSE}
  Hardware = {TRUE}
  HEALTH_FAIL_THRESHOLD = 2
  HEARTBEAT_TIMEOUT = 1
  Absent = Absent
  NoProbe = NoProbe
  PowerFails = TRUE
  Moves = FALSE
  Lossy = TRUE
PROPERTY PoweredOffNodeLeaves
