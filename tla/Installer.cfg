SPECIFICATION FairSpec
CONSTANTS
  MaxAttempts = 2
  Files <- MCFiles
  Had <- MCHad
  Mirrors = 1
INVARIANTS
  InstallIsEarned
  
PROPERTIES
  CancelledStays
  InstallEnds
CHECK_DEADLOCK FALSE
