SPECIFICATION Spec
CONSTANT Frames <- AllFrames
INVARIANTS
  PictureIsTheFrames
  RefusedForItsLayout
CHECK_DEADLOCK FALSE
