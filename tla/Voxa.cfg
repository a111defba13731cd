SPECIFICATION Spec
CONSTANTS
  Requests = {r1, r2}
  Workers = {w1}
  Blueprints = {b1, b2}
  Bots = {bot1, bot2}
  None = None
  GenerateRetries = 1
  ConnectorRetries = 0
  SoftLimit = TRUE
  MaxRequests = 3
  MaxCrashes = 1
SYMMETRY Symmetry
INVARIANTS TypeOK BlueprintBacked BuildingApproved BotAccounted PurgedBeforeForgotten
CHECK_DEADLOCK FALSE
