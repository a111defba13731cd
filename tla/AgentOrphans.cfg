SPECIFICATION Spec
CONSTANTS
  Jobs = {j1}
  MaxJobs = 1
  Reads = {r1}
  Unplanned = {"schema", "design", "test", "security"}
  HistoryPairs = 1
  MaxIterations = 2
  MaxNudges = 1
  MaxStreak = 2
  MaxCalls = 1
  MaxRuns = 1
  MaxCrashes = 0
INVARIANT NoSurvivors
CHECK_DEADLOCK FALSE
