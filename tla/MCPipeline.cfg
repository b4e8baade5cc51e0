SPECIFICATION FairPipelineSpec
CONSTANTS
  Request = {r1, r2}
  Node = {n1, n2}
  n1 = n1
  n2 = n2
  NodeLists <- MCNodeLists
  LayerCounts = {1, 3}
INVARIANTS
  PipelineTypeOK
  AnswerIsWhole
  NoChildLeft
  SlicesCoverModel
PROPERTIES
  EveryRequestIsOver
