SPECIFICATION Spec
CONSTANTS
  Requests = {r1, r2}
  Workers = {w1, w2}
  StopOffered = FALSE
  QueueMayRefuse = FALSE
  CallsMayFail = FALSE
  MaxRequests = 4
  MaxDecisions = 1
  MaxCrashes = 0
INVARIANT OneEditor
CHECK_DEADLOCK FALSE
