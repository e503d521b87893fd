CONSTANTS
  f1 = f1
  f2 = f2
  u1 = u1
  u2 = u2
  p0 = p0
  p1 = p1
  p2 = p2
  r1 = r1
  r2 = r2
  c1 = c1
  None = None
  NoId = p0
  Feeds = {f1, f2}
  Urls = {u1, u2}
  Ids = {p0, p1, p2}
  Answers <- MCAnswers
  Requests = {r1, r2}
  Crawlers = {c1}
SPECIFICATION Spec
PROPERTIES
  StaysCrawled
