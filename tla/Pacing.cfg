CONSTANTS
  Unset = Unset
  Unreadable = Unreadable
  None = None
  NoDate = NoDate
  Int32 = 128
  Int64 = 128
  Second = 3
  DefaultCadence = 6
  CadenceSample = 4
  Environments <- MCEnvironments
  Published <- MCPublished
  Stored <- MCStored
  Headers <- MCHeaders
  MaxStreak = 3
SPECIFICATION Spec
INVARIANTS
  TypeOK
  NothingLeftToReport
  RunsWithUsableSettings
  PacedWithinBounds
  ThrottleHonoured
  CadenceIsMedian
PROPERTIES
  DiesOfItsFailures
