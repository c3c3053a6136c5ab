SPECIFICATION Spec
CONSTANTS
  Requests <- AllRequests
  MaxDetections = 2
  MaxInt = 7
  MaxSize = 7
  Threshold = 0
INVARIANTS
  BoxesAreTheVisiblePart
  MasksShowTheirRun
  RingsPlayTheirPart
  RefusedIfMalformed
