SPECIFICATION FairSpec
CONSTANTS
  MaxHot = 2
  MaxAsked = 1
INVARIANTS
  LoginIsSound
PROPERTIES
  AcceptedRetryServed
