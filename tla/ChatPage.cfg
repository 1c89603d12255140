SPECIFICATION FairThreadSpec
CONSTANTS
  MaxId = 5
  Page = 2
  Blank = {3}
  Row <- MCRow
  Sessions <- MCSessions
INVARIANTS
  PageIsTrue
PROPERTIES
  BusyEnds
  WholeHistoryReached
