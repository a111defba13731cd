SPECIFICATION SyncSpec
CONSTANTS
  Works = {w1}
  MaxRuns = 1
  MaxFixes = 0
PROPERTY FinalSyncSaves
CHECK_DEADLOCK FALSE
