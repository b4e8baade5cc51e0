SPECIFICATION FairShardSpec
CONSTANTS
  c1 = c1
  c2 = c2
  c3 = c3
  m1 = m1
  m2 = m2
  m3 = m3
  Call <- MCCall
  Slot <- MCSlot
  NoModel = NoModel
INVARIANTS
  ShardInv
PROPERTIES
  RegisterImplemented
  EveryCallEnds
