SPECIFICATION ProjectSpec
CONSTANTS
  Requests = {r1, r2}
  Workers = {w1, w2}
  StopOffered = TRUE
  QueueMayRefuse = TRUE
  CallsMayFail = TRUE
  MaxRequests = 4
  MaxDecisions = 2
  MaxCrashes = 1
  Works = {x1, x2}
  MaxRuns = 2
  MaxFixes = 1
  CompileErrors = {e1, e2}
  MaxFix = 2
  MaxSame = 2
  MaxHits = 2
  LastRun = 2
  MaxStops = 1
  Connectors = {cn1}
  Migrators = {mg1, mg2}
  TableOf <- TableNames
  Blueprints <- EntityLists
  MaxDatabases = 2
  Messages = {ms1, ms2}
  Coders = {"forgefy", "claude_code"}
  FreeRoute = 2
  PaidRoute = 1
  Updates = {up1, up2, up3}
SYMMETRY Symmetry
INVARIANTS
  WithheldIsIdle OnlySignalledStop LostOnlyExcused PushReported ShownIsSaved StopEndsFixing
  ConnectedIsReal AnswersAreFinal ContinueResumes
CHECK_DEADLOCK FALSE
