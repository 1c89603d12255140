SPECIFICATION FairSpec
CONSTANTS
  A = A
  B = B
  C = C
  i1 = i1
  i3 = i3
  Msg = {1, 2, 3}
  KeyOf <- MCKeyOf
  Key = {A, B, C}
  NoMsg = none
  NoKey = nokey
  IdOf <- MCIdOf
  Id = {i1, i3}
  MaxSessions = 2
  Cap = 1
INVARIANTS
  CountIsTrue
  NoWorkerMissed
  AnsweredOncePerId
PROPERTIES
  WorkersAreExecutors
  ShutdownEnds
