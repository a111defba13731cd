SPECIFICATION LiveSpec
CONSTANTS
  Requests = {r1, r2}
  Workers = {w1}
  MaxDepth = 1
  MaxUnchecked = 1
  Works = {x1}
  MaxRuns = 2
  MaxFixes = 1
  Coroutines = {c1}
  Taskers = {t1}
  Blueprints = {b1, b2}
  Bots = {}
  None = None
  MaxCalls = 3
INVARIANT BacklogBounded
PROPERTIES Reopens GenerateSettles RunEnds
CHECK_DEADLOCK FALSE
