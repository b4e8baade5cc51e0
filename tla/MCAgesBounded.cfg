SPECIFICATION TimingSpec
CONSTANTS
  MAX_NODES = 4
  PROBE_TIMEOUT = 4
  HEALTH_INTERVAL = 20
  HEARTBEAT_TIMEOUT = 30
INVARIANT TimingInv
