SPECIFICATION Spec
CONSTANTS
  Runs = 2
  Overlap = TRUE
  ReachedStages <- Stages
INVARIANT ReaderSeesWhole
