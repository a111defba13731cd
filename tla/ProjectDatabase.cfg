SPECIFICATION Spec
CONSTANTS
  Requests = {r1}
  Workers = {w1}
  StopOffered = FALSE
  QueueMayRefuse = FALSE
  CallsMayFail = FALSE
  MaxRequests = 2
  MaxDecisions = 1
  MaxCrashes = 0
PROPERTY DatabaseKept
CHECK_DEADLOCK FALSE
