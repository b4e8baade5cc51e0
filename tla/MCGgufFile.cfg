SPECIFICATION FileSpec
CONSTANTS
  Files <- MCFiles
  LaterFiles <- MCLaterFiles
  Values <- MCValues
  NameMarks <- MCNameMarks
  HUGE = 4194304
  Models <- MCModels
  LayersPerShard = {0, 2}
  ALIGN = 8
INVARIANTS
  SplitTypeOK
  SuccessIsWhole
  EveryTensorOnce
  TablePointsAtData
  FoundShardsSurvive
  HeaderRead
  ShardsReadBack
