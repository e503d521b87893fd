CONSTANTS
  f1 = f1
  f2 = f2
  u1 = u1
  u2 = u2
  w1 = w1
  w2 = w2
  None = None
  Feeds = {f1, f2}
  Urls = {u1, u2}
  Docs = {"d1", "d2"}
  Announces <- MCAnnounces
  Intervals = {1}
  RetryAfters = {1}
  DeadRecheck = 3
  MaxFailures = 1
  Crawlers = {w1, w2}
  Workers = {w1, w2}
  BatchSize = 2
  Lease = 2
  BatchTime = 1
SPECIFICATION Spec
INVARIANTS
  TypeOK
  NoDoubleCrawl
  ValidatorsDescribeShown
  ShownIsCrawled
  LostCrawlsCostALease
  StubsPointElsewhere
PROPERTIES
  CrawlsAreAtomic
SYMMETRY WorkerFeedSymmetry
