CONSTANTS
  c1 = c1
  c2 = c2
  None = None
  Published <- MCPublished
  Crawlers = {c1, c2}
  Grace = 1
  MaxParses = 4
SPECIFICATION Spec
INVARIANTS
  TypeOK
  RecentSurvives
  OldIsPruned
  KeepsItsRow
  EveryItemServed
PROPERTIES
  ReadersSeeWholeDocuments
SYMMETRY CrawlerSymmetry
