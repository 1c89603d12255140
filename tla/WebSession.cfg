SPECIFICATION FairSpec
CONSTANTS
  Calls = {c1, c2}
  MaxFailures = 2
INVARIANTS
  GateSettles
PROPERTIES
  StaysIn
  LogoutStays
  ExpiryNoticed
  OperatorGetsIn
