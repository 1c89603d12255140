SPECIFICATION FairSpec
CONSTANTS
  ann = ann
  room = room
  noroom = noroom
  NoRoom = noroom
  Conv <- MCConv
  MaxPairs = 1
  Slots = 1
  MaxTurns = 2
INVARIANTS
  MemoryIsTrue
  MemoryComesFirst
PROPERTIES
  TurnsEnd
