SPECIFICATION Spec
CONSTANTS
  QueueCapacity = 1
  MaxFrames = 3
  Window = 2
  View = View
INVARIANTS
  FailedFrameNotCounted
