SPECIFICATION Spec
CONSTANTS
  MaxExtent = 7
  Models <- AllModels
  InputSizes <- RequestSizes
  Successors <- SuccessorsOf
  Payloads <- PayloadsOf
  Responses <- ResponsesOf
  MaxRequests = 2
  MaxReloads = 1
INVARIANTS
  SentBytesFitTheirShape
  RefusalIsJustified
  DeliveredFillTheirShape
  OneSnapshot
