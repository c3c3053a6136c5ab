SPECIFICATION Spec
CONSTANTS
  MaxRequests = 3
  MaxFiles = 2
INVARIANTS
  NamedFilesHoldTheirData
  EveryAnswerIsRecorded
  ExitIsPublished
