CONSTANTS
  f1 = f1
  f2 = f2
  u1 = u1
  u2 = u2
  w1 = w1
  r1 = r1
  r2 = r2
  None = None
  Feeds = {f1}
  Urls = {u1}
  Docs = {"d2", "d3"}
  Announces <- MCAnnounces
  Intervals = {3}
  RetryAfters = {1}
  DeadRecheck = 1
  MaxFailures = 1
  Crawlers = {w1, r1, r2}
  Workers = {w1}
  Requests = {r1, r2}
  ApiOf <- MCManyApis
  BatchSize = 1
  Lease = 2
  BatchTime = 1
  RequestTime = 1
SPECIFICATION ColdSpec
INVARIANTS
  ValidatorsDescribeShown
SYMMETRY RequestSymmetry
