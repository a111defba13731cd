SPECIFICATION FairSpec
CONSTANTS
  Requests = {r1, r2}
  Workers = {w1, w2}
  StopOffered = FALSE
  QueueMayRefuse = FALSE
  CallsMayFail = FALSE
  MaxRequests = 2
  MaxDecisions = 2
  MaxCrashes = 0
PROPERTY RunsSettle
CHECK_DEADLOCK FALSE
