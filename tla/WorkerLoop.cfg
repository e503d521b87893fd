CONSTANTS
  f1 = f1
  f2 = f2
  u1 = u1
  u2 = u2
  u3 = u3
  w1 = w1
  None = None
  Feeds = {f1, f2}
  Urls = {u1, u2, u3}
  Docs = {"d2"}
  Announces <- MCAnnounces
  Intervals = {1}
  RetryAfters = {}
  DeadRecheck = 1
  MaxFailures = 0
  Crawlers = {w1}
  Workers = {w1}
  BatchSize = 1
  Lease = 2
  BatchTime = 1
  Slots = 1
  Grace = 1
  MaxStops = 1
SPECIFICATION LoopFairSpec
INVARIANTS
  LoopTypeOK
PROPERTIES
  QueueKept
  NobodyStranded
