SPECIFICATION PathSpec
CONSTANTS
  MaxExtent = 32767
  PictureModels <- AllModels
  PictureSizes <- AllSizes
  TaskExtents <- OwnExtents
INVARIANTS
  PicturesArriveAsPrepared
  RefusalHasItsCause
CHECK_DEADLOCK FALSE
