SPECIFICATION FairPartitionSpec
CONSTANTS
  N = 3
  Scores = {1, 2, 3, 20}
  Layers = {1, 2, 4, 6, 9}
INVARIANTS
  EveryLayerPlaced
  ExactWhenSharesSuffice
  CapableNodesGetMore
  NothingGivenBack
PROPERTY PartitionEnds
CHECK_DEADLOCK FALSE
