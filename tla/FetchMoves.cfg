CONSTANTS
  h1 = h1
  h2 = h2
  p1 = p1
  g1 = g1
  g2 = g2
  None = None
  Forever = Forever
  Hosts = {h1, h2}
  Paths = {p1}
  Fetchers = {g1, g2}
  Burst = 1
  Window = 2
  Deadlines = {0, 1, Forever}
  Timeout = 1
  MaxRequests = 3
  MaxBody = 2
  MaxDebt = 2
SPECIFICATION Spec
INVARIANTS
  MovedWhereAnnounced
