SPECIFICATION FairSpec
CONSTANTS
  QueueCapacity = 2
  MaxFrames = 5
  Window = 3
  View = View
INVARIANTS
  EachFrameOnce
  SuccessHasItsVideo
  SampleMeansDelivered
  FailureNamesItsStage
  RowsNameTheirFrames
  RateDividesLikeByLike
PROPERTIES
  ArtifactSpec
  RunEnds
