SPECIFICATION Spec
CONSTANTS
  Jobs = {j1}
  MaxJobs = 1
  Reads = {r1}
  Unplanned = {"schema", "design", "security"}
  HistoryPairs = 1
  MaxIterations = 5
  MaxNudges = 1
  MaxStreak = 2
  MaxCalls = 2
  MaxRuns = 2
  MaxCrashes = 1
INVARIANTS RequestsWellFormed NoticeIsHonest StallBounded SignedOff JobsEndWithRun
CHECK_DEADLOCK FALSE
