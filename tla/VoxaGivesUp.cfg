SPECIFICATION FairSpec
CONSTANTS
  Requests = {r1}
  Workers = {w1}
  Blueprints = {b1}
  Bots = {bot1}
  None = None
  GenerateRetries = 1
  ConnectorRetries = 1
  SoftLimit = FALSE
  MaxRequests = 1
  MaxCrashes = 0
PROPERTY JoinResolves
CHECK_DEADLOCK FALSE
