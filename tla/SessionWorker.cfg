SPECIFICATION FairSpec
CONSTANTS
  t1 = t1
  t2 = t2
  t3 = t3
  c1 = c1
  c2 = c2
  none = none
  Task <- MCTask
  Stopper <- MCStopper
  NoTask = none
  Cap = 1
INVARIANTS
  SubmissionsAreSafe
  SerialOrder
  CancelStopsBacklog
PROPERTIES
  ImplementsExecutor
  NobodyWaitsForEver
