SPECIFICATION Spec
CONSTANTS
  MaxSources = 1
  MaxIterations = 1
  WarmupRounds = 1
INVARIANT
  DecodedImageIsSent
