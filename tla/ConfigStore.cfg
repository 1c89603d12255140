SPECIFICATION FairSpec
CONSTANTS
  r1 = r1
  r2 = r2
  default = default
  override = override
  Request <- MCRequest
  Default <- default
  Override <- override
  MaxStarts = 2
  Missing = missing
  Empty = empty
  Partial = partial
INVARIANTS
  ConfigIsCoherent
PROPERTIES
  OnlyBodyChanges
  RequestsAnswered
