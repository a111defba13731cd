SPECIFICATION FairSpec
CONSTANTS
  Requests = {r1}
  Workers = {w1}
  Blueprints = {b1, b2}
  Bots = {bot1}
  None = None
  GenerateRetries = 2
  ConnectorRetries = 1
  SoftLimit = TRUE
  MaxRequests = 3
  MaxCrashes = 0
PROPERTY GenerateSettles
CHECK_DEADLOCK FALSE
