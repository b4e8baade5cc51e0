SPECIFICATION FairMachineSpec
CONSTANTS
  c1 = c1
  c2 = c2
  d1 = d1
  d2 = d2
  Call <- MCCall
  Asks <- MCAsks
  Device <- MCDevice
  Offers <- MCOffers
  Machines <- MCMachines
  CHANGES = 1
  WORKERS = 2
INVARIANTS
  RepliesAreTrue
  AuditFitsDetection
PROPERTIES
  TasksGoOn
