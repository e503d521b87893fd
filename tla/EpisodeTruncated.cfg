CONSTANTS
  c1 = c1
  c2 = c2
  None = None
  Published <- MCTruncations
  Crawlers = {c1, c2}
  Grace = 1
  MaxParses = 3
SPECIFICATION Spec
PROPERTIES
  TruncationForgiven
