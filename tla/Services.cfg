SPECIFICATION ServicesSpec
CONSTANTS
  Readers = {rd1, rd2}
  Handlers = {h1, h2}
  Payments = {p1, p2}
  PaidTiers = {"pro", "team"}
  Term = 2
  MaxTime = 4
  MaxRepeats = 1
  Callers = {c1, c2}
  Tiers = {"free", "pro"}
  Budget <- Budgets
  Cost = 2
  FreeModel = TRUE
  MaxMonth = 1
  MaxServed = 5
  Visitors = {v1, v2}
  Ids = {i1, i2}
  Logins = {l1, l2}
  MaxAttempts = 2
  MaxSkipped = 1
  Pollers = {po1, po2}
  Approvers = {ap1, ap2}
  Creators = {cr1}
  Keys = {k1, k2, k3}
  MaxActive = 1
  KeyCalls = {kc1, kc2}
  Servers = {sv1, sv2}
  CacheTTL = 2
  MaxClock = 5
  Admins = {a1, a2}
  Models = {"d", "x"}
  Defaults = {"d"}
  Sessions = {s1}
  Projects = {pr1}
  Meetings = {m1, m2, m3}
  MaxTokens = 3
  Reapers = {re1, re2}
  BotRetries = 1
  MaxBotCrashes = 2
  Sockets = {so1, so2}
  AudioRetries = 1
  MinPieces = 2
  MaxPieces = 4
  MaxStreams = 2
  Browsers = {b1}
  HistoryMax = 2
  MaxEvents = 5
  Posters = {x1, x2}
  HookRetries = 1
  MaxJobs = 2
  Turns = {t1, t2, t3}
  Chats = {ch1, ch2}
  HistoryCap = 1
  MemoryCap = 1
  Flows = {fl1, fl2}
  Callbacks = {cb1}
  Takers = {tk1, tk2}
  Window = 0
  MaxAge = 1
  MaxGranted = 2
INVARIANTS
  PaidTimeServed FullPriceBounded AccountReachable LockoutHolds DeliveredOnce
  RevocationTakesHold CatalogueKept ErasedForGood GrantKept BotEndsWithMeeting
  AudioAccounted JobToldOnce TurnsKept
  LinkKept
PROPERTY FeedKept
CHECK_DEADLOCK FALSE
